---- MODULE Spec2Model ----
(***************************************************************************)
(* A model of the agent runtime of ownAgent: the conversation context      *)
(* (ag.py, ContextManager), the tool executor (ag.py, ToolExecutor), the   *)
(* think-act loop (ag.py, AgentRuntime.step) and the session registry and  *)
(* the session routes of the web server (server.py).                       *)
(*                                                                         *)
(* The specifications share the definitions:                              *)
(*   Spec         one runtime driven turn after turn by a caller that      *)
(*                reads each step to its end before it sends the next      *)
(*                input (CLI.run, or a web client that awaits the stream); *)
(*   SpecTools    one step whose tool calls fail in each way;              *)
(*   SpecStream   one step whose streams leave out tool-call ids;          *)
(*   SpecCtx      the mutators of one ContextManager called in any order;  *)
(*   SpecSessions the routes of server.py; a request is one action, for    *)
(*                no handler reaches an await before it is answered;       *)
(*   SpecPaths    one call of the path guard or of a file tool.            *)
(*                                                                         *)
(* An action of a step is the code between two suspensions of the          *)
(* generator: from a yield (or the start) to the next yield (or the end).  *)
(* AgentRuntime takes an optional skills manager. Spec, SpecTools,         *)
(* SpecStream, SpecCtx, SpecRestart, SpecTurn and SpecChunks describe a    *)
(* runtime built with the default, no manager. server.py hands every       *)
(* runtime a SkillsManager, on which the constructor raises (SpecSkills);  *)
(* SpecSessions follows the server with that manager: no runtime comes to  *)
(* exist, and a request that needs one is answered with status 500.        *)
(***************************************************************************)
EXTENDS Integers, Sequences, FiniteSets, TLC

VARIABLES
    history,           \* runtime -> ContextManager.history (a sequence of messages)
    env,               \* runtime -> ToolContext.env, "cli" or "web"
    autosave,          \* runtime -> ContextManager.autosave_file (a session key) or NoFile
    created,           \* the AgentRuntime objects constructed so far
    files,             \* session key -> content of the session file, or Missing
    session_runtimes,  \* server.session_runtimes: session key -> runtime, or NoRuntime
    pc,                \* task -> where the task stands
    rt,                \* task -> the runtime whose step the task drives
    current_step,      \* task -> the local current_step of step
    stream,            \* task -> the stream of the model call of step and what is left of it
    tool_calls,        \* task -> the local tool_calls of step: the calls of the reply
    pending,           \* task -> the calls of tool_calls the for loop has yet to run
    events,            \* task -> the events the current step has yielded so far
    model_calls,       \* task -> model calls issued by the current step
    dispatched,        \* task -> tool calls executed by the current step
    outcome,           \* task -> what the handler of the last executed call did
    nextId,            \* the next tool-call id the model hands out
    turns,             \* step invocations started so far
    active_sessions,   \* server.active_sessions: user -> session id, or None
    now,               \* the wall clock datetime.now() reads, in seconds
    response,          \* the response to the last HTTP request
    requests,          \* HTTP requests served so far
    path_call,         \* a call of the path guard or of a file tool: its inputs
    path_result,       \* what that call returned, or None before the call
    unchatted,         \* session keys new_session returned and no chat has run on since
    cwd,               \* the working directory of the process, what os.getcwd() returns
    raised,            \* whether the last ContextManager call let an exception escape
    mcp,               \* the McpClient: _request_id, _pending_requests, the callers, the wire
    executor,          \* the ToolExecutor: _execution_map and _schemas
    chunks,            \* the chunks of one model reply as the transport delivers them
    full_message,      \* what parse_stream assembled from them, or NotParsed before it ended
    interpreter,       \* parse_stream on these chunks: its accumulators and where it stands
    sse,               \* the SseTransport of an McpClient, its server and its connect call
    skills_manager,    \* the SkillsManager main builds and hands to the runtime, or none
    json_text,         \* the argument string handed to _robust_json_parse
    json_result,       \* what _robust_json_parse did with it, or NotCalled
    todo_state,        \* ToolContext.todo_state of the runtime of the CLI
    messages_to_send   \* the messages of the last model call of step

vars == << history, env, autosave, created, files, session_runtimes,
           pc, rt, current_step, stream, tool_calls, pending, events, model_calls, dispatched,
           outcome, nextId, turns, active_sessions, now, response, requests,
           path_call, path_result, unchatted, cwd, raised, mcp, executor, chunks, full_message, interpreter,
           sse, skills_manager, json_text, json_result, todo_state, messages_to_send >>

ctxVars == << history, files >>
rtVars == << env, autosave, created >>
regVars == << session_runtimes >>
webVars == << active_sessions, now, response, requests, unchatted >>
pathVars == << path_call, path_result >>
procVars == << cwd, raised >>
mcpVars == << mcp, sse >>
execVars == << executor >>
streamVars == << chunks, full_message, interpreter >>
todoVars == << todo_state, messages_to_send >>
jsonVars == << json_text, json_result >>
skillVars == << skills_manager >>
auxVars == << procVars, mcpVars, execVars, streamVars, todoVars, jsonVars, skillVars >>
taskVars == << pc, rt, current_step, stream, tool_calls, pending, events, model_calls, dispatched, outcome >>

-----------------------------------------------------------------------------
(* Bounds of the model                                                     *)

\* AgentRuntime.max_steps. The code sets 100 (ag.py:986); the loop reads it
\* only in its guard, so the model runs the same loop with a small budget.
max_steps == 2
\* Step invocations one caller makes in a run of Spec.
MaxTurns == 2
\* Tool calls in one model reply.
MaxCalls == 2
\* Tool-call ids the model hands out in a run.
MaxIds == 3
\* Length of the history up to which SpecCtx appends messages.
MaxCtxLen == 4
\* Components of a path handed to the path guard.
MaxPathLen == 3
\* HTTP requests served in a run of SpecSessions.
MaxRequests == 2
\* Seconds the wall clock advances in a run of SpecSessions.
MaxClock == 1
\* Calls of McpClient.request.
MaxMcpRequests == 3
\* Chunks of one model reply.
MaxChunks == 2
\* Registrations at one ToolExecutor.
MaxSchemas == 3
\* Characters of the argument strings that are enumerated in full.
MaxArgLen == 3
\* Skills of a catalogue.
MaxSkills == 2
\* Events the server of an SSE transport writes to its stream.
MaxSseEvents == 3

-----------------------------------------------------------------------------
(* Values                                                                  *)

NoFile == "NoFile"
NoRuntime == "NoRuntime"
NoId == 0
\* The id of an assembled tool call whose index got no id fragment: the
\* empty string the buffer slot starts with.
EmptyId == -1
None == "None"

\* The task of Spec, the caller of step; its runtime bears the same name.
CliTask == "cli"
SessionKeys == {"1:s1", "1:s2"}
UserInputs == {"u1"}

\* The tools step or the model treats in a way of their own, and a name the
\* registry does not hold.
ATTEMPT_COMPLETION == "attempt_completion"
ASK_FOLLOWUP == "ask_followup_question"
READ_FILE == "read_file"
BROWSER_ACTION == "browser_action"
READ_TODO == "read_todo"
WRITE_TODO == "write_todo"
UPDATE_TODO == "update_todo"
UNREGISTERED == "no_such_tool"

\* ToolExecutor._execution_map of the runtime: the names server.py
\* registers (main registers the same without get_skill).
execution_map ==
    { "list_files", READ_FILE, "write_to_file", "delete_file", "search_files",
      "edit_file", "execute_command", BROWSER_ACTION, "apply_diff", ASK_FOLLOWUP,
      ATTEMPT_COMPLETION, "new_task", "switch_mode", "fetch_instructions",
      "list_skills", "search_skills", "get_skill", READ_TODO, WRITE_TODO, UPDATE_TODO }

\* The registered functions that are coroutine functions: execute awaits
\* them, and step is suspended while they run.
Coroutines == {BROWSER_ACTION}

\* The argument strings of a tool call, by what the code can do with them:
\* "valid" parses to arguments the tool's model accepts, "invalid" parses but
\* fails the pydantic validation, "unparseable" fails json.loads also after
\* the repairs of _robust_json_parse, "too deep" is nested so deeply that
\* json.loads raises RecursionError.
ArgStrings == {"valid", "invalid", "unparseable", "too deep"}

\* What a handler does when it is run: it returns its result, or it raises.
HandlerOutcomes == {"return", "raise"}

Message(role, content, reasoning, calls, id) ==
    [role |-> role, content |-> content, reasoning_content |-> reasoning,
     tool_calls |-> calls, tool_call_id |-> id]

\* tool_calls = << >> stands for the None the interpreter stores for no calls.
SystemMsg(prompt) == Message("system", prompt, None, << >>, NoId)
UserMsg(content) == Message("user", content, None, << >>, NoId)
ToolMsg(id, content) == Message("tool", content, None, << >>, id)

\* The content of a session file that does not exist, of one whose directory
\* "sessions" does not exist either, and of a file of 0 bytes (what open for
\* writing leaves when the write after it fails).
Missing == << [role |-> "no file"] >>
NoDir == << [role |-> "no directory"] >>
EmptyFile == << [role |-> "empty file"] >>

\* Path.exists() and open for reading: the file is there; json.load reads it.
exists(file) == file \notin {Missing, NoDir}
loadable(file) == exists(file) /\ file # EmptyFile

ToolCall(id, name, args) == [id |-> id, name |-> name, args |-> args]

\* The working directory the process is started in, and the directories it
\* may be moved to.
Cwd == << "ws" >>
WorkDirs == { << "ws" >>, << "ws", "in" >> }

\* ContextManager._build_system_prompt: the prompt names the workspace.
SYSTEM_PROMPT == "system_prompt"
build_system_prompt(workspace) ==
    IF workspace = Cwd THEN SYSTEM_PROMPT ELSE "system_prompt of ws/in"

-----------------------------------------------------------------------------
(* ContextManager                                                          *)

\* ContextManager.__init__ in the working directory `workspace`.
ContextAt(workspace) == << SystemMsg(build_system_prompt(workspace)) >>
ContextInit == ContextAt(Cwd)

add_user_msg(h, content) == Append(h, UserMsg(content))

add_assistant_msg(h, message) == Append(h, message)

add_tool_output(h, tool_call_id, content) == Append(h, ToolMsg(tool_call_id, content))

\* load_history_drops_system: the loaded list replaces the whole history.
load_history_drops_system(h, loaded) ==
    IF loaded = << >> THEN h
    ELSE LET start_idx == IF loaded[1].role = "system" THEN 2 ELSE 1
         IN  SubSeq(loaded, start_idx, Len(loaded))

\* load_history on a file that json.load reads as the list `loaded`.
load_history(h, loaded) ==
    IF loaded = << >> THEN h
    ELSE LET start_idx == IF loaded[1].role = "system" THEN 2 ELSE 1
         IN  << h[1] >> \o SubSeq(loaded, start_idx, Len(loaded))

\* reset in the working directory `workspace`: the first message is kept,
\* the prompt is built anew only for an empty history.
reset(h, workspace) == IF h # << >> THEN << h[1] >> ELSE ContextAt(workspace)

\* json.dump and json.load of one value of a message: None is written as
\* null, a string as a JSON string.
json_value(v) ==
    IF v = None THEN [type |-> "null", text |-> ""] ELSE [type |-> "string", text |-> v]
python_value(j) == IF j.type = "null" THEN None ELSE j.text

\* json.dump of a history: an array of one object per message.
json_dump(h) ==
    [i \in 1..Len(h) |->
        [role |-> h[i].role,
         content |-> json_value(h[i].content),
         reasoning_content |-> json_value(h[i].reasoning_content),
         tool_calls |-> h[i].tool_calls,
         tool_call_id |-> h[i].tool_call_id]]

\* json.load of the text of a file.
json_load(text) ==
    [i \in 1..Len(text) |->
        Message(text[i].role, python_value(text[i].content),
                python_value(text[i].reasoning_content),
                text[i].tool_calls, text[i].tool_call_id)]

\* save_history, called by a mutator when autosave_file is set.
save_history(fs, path, h) ==
    IF path = NoFile THEN fs ELSE [fs EXCEPT ![path] = json_dump(h)]

-----------------------------------------------------------------------------
(* ToolExecutor and the tools                                              *)

\* What step holds in result_obj: a plain string (is_tool_result FALSE) or a
\* ToolResult with its output and the "action" of its data (None when the
\* data is absent or names no action).
StrResult(text) == [is_tool_result |-> FALSE, output |-> text, action |-> None]
ToolResult(output, action) == [is_tool_result |-> TRUE, output |-> output, action |-> action]

\* _robust_json_parse: the parsed arguments, the JSONDecodeError raised when
\* the string and its five repairs all fail to parse, or the RecursionError
\* of the first json.loads, which the routine does not catch.
robust_json_parse(args_str) ==
    [raised |-> CASE args_str = "unparseable" -> "JSONDecodeError"
                  [] args_str = "too deep" -> "RecursionError"
                  [] OTHER -> None,
     value |-> args_str]

\* An item of a todo list, a JSON object with an id, a status and
\* "subtasks": a list of items, or (listed FALSE) a number, which is true to
\* `if` and cannot be iterated.
TodoItem(id, status, subtasks) ==
    [id |-> id, status |-> status, subtasks |-> subtasks, listed |-> TRUE]
NumberedItem(id, status) ==
    [id |-> id, status |-> status, subtasks |-> << >>, listed |-> FALSE]

\* ToolContext.todo_state when the context is built: the empty list, false
\* to `if`.
NoTodos == << >>

\* The argument strings of write_todo that WriteTodoArgs accepts, and the
\* list each carries as "todos".
TodoLists == {"[]", "[a]", "[a[b]]", "[a:5]"}
todos_of(args) ==
    CASE args = "[a]" -> << TodoItem("a", "pending", << >>) >>
      [] args = "[a[b]]" ->
            << TodoItem("a", "pending", << TodoItem("b", "pending", << >>) >>) >>
      [] args = "[a:5]" -> << NumberedItem("a", "pending") >>
      [] OTHER -> << >>

\* The argument strings of update_todo that UpdateTodoArgs accepts (the id
\* of an item, a status of TodoStatus), and the arguments each carries.
TodoUpdates == {"a=completed", "b=completed", "c=completed"}
update_of(args) ==
    [id |-> CASE args = "a=completed" -> "a" [] args = "b=completed" -> "b" [] OTHER -> "c",
     status |-> "completed"]

\* args_model(**raw_args): whether the model of the tool accepts the parsed
\* arguments.
validates(name, raw_args) ==
    CASE name = WRITE_TODO -> raw_args \in TodoLists
      [] name = UPDATE_TODO -> raw_args \in TodoUpdates
      [] OTHER -> raw_args = "valid"

\* json.dumps of a todo list.
RECURSIVE items_json(_)
item_json(item) ==
    "{" \o item.id \o ":" \o item.status
        \o (IF ~item.listed THEN ":5"
            ELSE IF item.subtasks = << >> THEN ""
            ELSE ":[" \o items_json(item.subtasks) \o "]")
        \o "}"
items_json(items) ==
    IF items = << >> THEN "" ELSE item_json(Head(items)) \o items_json(Tail(items))
json_dumps(todos) == "[" \o items_json(todos) \o "]"

\* The loops of write_todo and update_todo that render the plan: they
\* iterate the "subtasks" of every item of the list.
renders(todos) == \A i \in DOMAIN todos : todos[i].listed

\* What a handler leaves: whether it raised, the result it returned when it
\* did not, and todo_state.
Outcome(exc, result, todos) == [raised |-> exc, result |-> result, todos |-> todos]

\* read_todo: the JSON text of the list.
read_todo(todos) == Outcome(FALSE, ToolResult(json_dumps(todos), None), todos)

\* write_todo: todo_state is replaced by the todos of the arguments, then
\* the plan is rendered (the output is modelled by its first line) and
\* returned with the action "display_todo".
write_todo(todos, args) ==
    LET new == todos_of(args) IN
    Outcome(~renders(new), ToolResult("Current Plan Status:", "display_todo"), new)

\* _update_recursive of update_todo over `items`: the first item with the id
\* (the items in order, the subtasks of an item before the items after it)
\* gets the status, in place; "subtasks" that are true to `if` and no list
\* raise when they are iterated.
RECURSIVE update_recursive(_, _)
update_recursive(items, a) ==
    IF items = << >> THEN [items |-> items, updated |-> FALSE, raised |-> FALSE]
    ELSE LET item == Head(items)
             sub == update_recursive(item.subtasks, a)
             rest == update_recursive(Tail(items), a)
         IN  IF item.id = a.id
             THEN [items |-> << [item EXCEPT !.status = a.status] >> \o Tail(items),
                   updated |-> TRUE, raised |-> FALSE]
             ELSE IF ~item.listed
             THEN [items |-> items, updated |-> FALSE, raised |-> TRUE]
             ELSE IF sub.raised \/ sub.updated
             THEN [items |-> << [item EXCEPT !.subtasks = sub.items] >> \o Tail(items),
                   updated |-> sub.updated, raised |-> sub.raised]
             ELSE [items |-> << item >> \o rest.items,
                   updated |-> rest.updated, raised |-> rest.raised]

\* update_todo: an error result without a list or without an item of the
\* id; else the item is updated, the plan is rendered and returned.
update_todo(todos, args) ==
    LET walked == update_recursive(todos, update_of(args)) IN
    IF todos = << >> THEN Outcome(FALSE, ToolResult("Error: No todo list found.", None), todos)
    ELSE IF walked.raised THEN Outcome(TRUE, ToolResult(None, None), todos)
    ELSE IF ~walked.updated
    THEN Outcome(FALSE, ToolResult("Error: Todo item with ID not found.", None), todos)
    ELSE Outcome(~renders(walked.items), ToolResult("Updated Plan Status:", "display_todo"),
             walked.items)

\* The results of the other registered handlers. ask_followup_question
\* returns the ask_user signal in the web environment and the user's typed
\* answer in the CLI.
handler(name, e) ==
    CASE name = ASK_FOLLOWUP ->
            IF e = "web" THEN ToolResult("[WAITING FOR USER INPUT]", "ask_user")
            ELSE ToolResult("USER ANSWER", None)
      [] name = ATTEMPT_COMPLETION -> ToolResult("TASK COMPLETED", None)
      [] name = BROWSER_ACTION -> ToolResult("page content", None)
      [] OTHER -> ToolResult("file content", None)

\* func(ctx, args_instance): a todo tool reads and writes todo_state; any
\* other handler returns its result or raises (`how`).
run_handler(name, raw_args, e, how, todos) ==
    CASE name = READ_TODO -> read_todo(todos)
      [] name = WRITE_TODO -> write_todo(todos, raw_args)
      [] name = UPDATE_TODO -> update_todo(todos, raw_args)
      [] OTHER -> Outcome(how = "raise", handler(name, e), todos)

\* What the try block of step around a tool call leaves: result_obj, and
\* todo_state.
Done(result, todos) == [result |-> result, todos |-> todos]

\* ToolExecutor.execute: lookup, validation by the args model, the handler;
\* every exception of validation and handler becomes an error string.
execute(name, raw_args, e, how, todos) ==
    LET ran == run_handler(name, raw_args, e, how, todos) IN
    IF name \notin execution_map THEN Done(StrResult("Error: Tool not found"), todos)
    ELSE IF ~validates(name, raw_args) THEN Done(StrResult("Error executing"), todos)
    ELSE IF ran.raised THEN Done(StrResult("Error executing"), ran.todos)
    ELSE Done(ran.result, ran.todos)

\* The try block of step around one tool call: the arguments are parsed and
\* the tool is executed; a JSONDecodeError and any other exception become
\* an error string each.
run_tool(tc, e, how, todos) ==
    LET parsed == robust_json_parse(tc.args)
    IN  IF parsed.raised = "JSONDecodeError"
        THEN Done(StrResult("Error: Invalid JSON arguments generated"), todos)
        ELSE IF parsed.raised # None
        THEN Done(StrResult("Error: maximum recursion depth exceeded"), todos)
        ELSE execute(tc.name, parsed.value, e, how, todos)

\* step has announced the call and awaits a coroutine function in execute.
suspends(tc) ==
    /\ tc.name \in Coroutines
    /\ robust_json_parse(tc.args).raised = None
    /\ validates(tc.name, tc.args)

\* The outputs that report a failure of the call.
ErrorOutputs == {"Error: Tool not found", "Error executing",
                 "Error: Invalid JSON arguments generated",
                 "Error: maximum recursion depth exceeded"}

-----------------------------------------------------------------------------
(* The path guard (agent_tools/base.py) and the file tools (io.py, diff.py) *)

\* A path string is modelled by whether it starts at "/" and by its
\* components; a resolved (absolute) path by its components from "/".
InputPath(abs, parts) == [abs |-> abs, parts |-> parts]

\* The names the components of an input path are drawn from.
PathNames == {"ws", "wsx", "in", "out", "..", ".", "~"}

\* The file system the guard resolves against: the workspace /ws with the
\* directory /ws/src and the file /ws/src/out, a sibling /wsx whose name
\* starts with the name of the workspace, and two symbolic links in the
\* workspace, /ws/in -> /ws/src and /ws/out -> /etc.
HomeDir == << "home" >>
Dirs == { << >>, << "ws" >>, << "ws", "src" >>, << "wsx" >>, << "etc" >>, HomeDir }
Files == { << "ws", "src", "out" >>, << "wsx", "in" >> }
Symlinks == (<< "ws", "in" >> :> << "ws", "src" >>) @@ (<< "ws", "out" >> :> << "etc" >>)

\* ToolContext.workspace_root as the guard may be given it: the workspace,
\* or a link to a directory of it.
WorkspaceRoots == { << "ws" >>, << "ws", "in" >> }

\* os.path.expanduser on a path string: a leading "~" becomes the home.
expanduser(p) ==
    IF ~p.abs /\ p.parts # << >> /\ p.parts[1] = "~"
    THEN InputPath(TRUE, HomeDir \o Tail(p.parts))
    ELSE p

\* Path.resolve() of an absolute path: "." dropped, ".." takes the last
\* component away (none at "/"), a symbolic link is replaced by its target.
RECURSIVE resolve_from(_, _)
resolve_from(acc, parts) ==
    IF parts = << >> THEN acc
    ELSE LET c == Head(parts)
             step == IF c = "." THEN acc
                     ELSE IF c = ".."
                          THEN (IF acc = << >> THEN acc ELSE SubSeq(acc, 1, Len(acc) - 1))
                     ELSE IF (acc \o << c >>) \in DOMAIN Symlinks
                          THEN Symlinks[acc \o << c >>]
                     ELSE acc \o << c >>
         IN  resolve_from(step, Tail(parts))

resolve(parts) == resolve_from(<< >>, parts)

\* One name is a prefix of the other as a string.
NamePrefix(a, b) == a = b \/ (a = "ws" /\ b = "wsx")

\* is_relative_to_str_prefix: the test str(target).startswith(str(root)).
is_relative_to_str_prefix(target, root) ==
    \/ root = << >>
    \/ /\ Len(root) <= Len(target)
       /\ SubSeq(target, 1, Len(root) - 1) = SubSeq(root, 1, Len(root) - 1)
       /\ NamePrefix(root[Len(root)], target[Len(root)])

\* PurePath.is_relative_to: root is target or an ancestor of it, component
\* by component.
is_relative_to(target, root) ==
    /\ Len(root) <= Len(target)
    /\ SubSeq(target, 1, Len(root)) = root

\* validate_path on a path string: the resolved path, or the ValueError.
validate_path(p, workspace_root) ==
    LET path_obj == expanduser(p)
        root_path == resolve(workspace_root)
        target_path == IF path_obj.abs THEN resolve(path_obj.parts)
                       ELSE resolve(root_path \o path_obj.parts)
    IN  [raised |-> ~is_relative_to(target_path, root_path), value |-> target_path]

\* The built-in tools that take a path.
LIST_FILES == "list_files"
WRITE_TO_FILE == "write_to_file"
DELETE_FILE == "delete_file"
SEARCH_FILES == "search_files"
EDIT_FILE == "edit_file"
APPLY_DIFF == "apply_diff"
PathTools == { LIST_FILES, READ_FILE, WRITE_TO_FILE, DELETE_FILE, SEARCH_FILES,
               EDIT_FILE, APPLY_DIFF }

\* What a call of a file tool passes besides the path: list_files its
\* `recursive`, edit_file an old_string that is empty (the file is to be
\* created) or not (it occurs in the file as often as expected); the other
\* tools arguments that are well-formed (one file to read, a pattern that
\* compiles and matches a line of every file, a diff that applies).
Flat == "recursive=False"
Recursive == "recursive=True"
Replace == "old_string"
Create == "old_string=''"
Plain == "plain"
ToolArgs(name) ==
    CASE name = LIST_FILES -> {Flat, Recursive}
      [] name = EDIT_FILE -> {Replace, Create}
      [] OTHER -> {Plain}

\* What a file tool returns and the paths it opened, listed, created or
\* removed on the way.
PathToolResult(success, output, touched) ==
    [success |-> success, output |-> output, touched |-> touched]

\* Path.exists(), is_dir() and is_file() of a resolved path.
path_exists(t) == t \in Dirs \cup Files
is_dir(t) == t \in Dirs
is_file(t) == t \in Files

\* A file of the file system lies on the way to path t.
UnderFile(t) == \E n \in 1..(Len(t) - 1) : SubSeq(t, 1, n) \in Files

\* The directories target_path.parent.mkdir(parents=True) makes.
parents_made(t) == { SubSeq(t, 1, n) : n \in 0..(Len(t) - 1) } \ Dirs

\* The directories os.walk(t) lists (it does not follow links) and the files
\* in them.
walk(t) == { d \in Dirs : is_relative_to(d, t) }
FilesBelow(t) == { f \in Files : is_relative_to(f, t) }

\* What shutil.rmtree(t) removes: the directories and files below t and the
\* links in them.
rmtree(t) ==
    walk(t) \cup FilesBelow(t) \cup { l \in DOMAIN Symlinks : is_relative_to(l, t) }

\* parent.mkdir(parents=True, exist_ok=True), then open(t, 'w') and write:
\* mkdir raises when a file is on the way, open when t is a directory.
write_new(t, failure, done) ==
    IF is_dir(t) \/ UnderFile(t) THEN PathToolResult(FALSE, failure, {})
    ELSE PathToolResult(TRUE, done, parents_made(t) \cup {t})

\* open(t, 'r'), read, open(t, 'w') and write of a path that exists: open
\* raises on a directory.
rewrite(t, failure, done) ==
    IF is_dir(t) THEN PathToolResult(FALSE, failure, {})
    ELSE PathToolResult(TRUE, done, {t})

\* A file tool called with path p and the argument arg. Each tool validates
\* the path first; every exception, the guard's ValueError included, is
\* caught in the tool: read_file notes it in its output and returns
\* success, the others return a failure. search_files names each match by
\* file_path.relative_to(ctx.workspace_root), the root as it was given.
path_tool(name, p, workspace_root, arg) ==
    LET g == validate_path(p, workspace_root)
        t == g.value
    IN  IF g.raised
        THEN PathToolResult(name = READ_FILE, "Security Error: Path is outside workspace", {})
        ELSE CASE name = LIST_FILES ->
                    IF ~path_exists(t) THEN PathToolResult(FALSE, "Error: Path does not exist", {})
                    ELSE IF ~is_dir(t)
                    THEN PathToolResult(FALSE, "Error: Path is not a directory", {})
                    ELSE PathToolResult(TRUE, "listing", IF arg = Recursive THEN walk(t) ELSE {t})
               [] name = READ_FILE ->
                    IF ~path_exists(t) THEN PathToolResult(TRUE, "Error: File not found", {})
                    ELSE IF ~is_file(t) THEN PathToolResult(TRUE, "Error: Path is not a file", {})
                    ELSE PathToolResult(TRUE, "file content", {t})
               [] name = WRITE_TO_FILE ->
                    write_new(t, "Failed to write file", "Successfully wrote")
               [] name = DELETE_FILE ->
                    IF ~path_exists(t) THEN PathToolResult(FALSE, "Error: Path does not exist", {})
                    ELSE IF is_dir(t) THEN PathToolResult(TRUE, "Successfully deleted", rmtree(t))
                    ELSE PathToolResult(TRUE, "Successfully deleted", {t})
               [] name = SEARCH_FILES ->
                    IF ~is_dir(t) THEN PathToolResult(FALSE, "Error: Path is not a directory", {})
                    ELSE IF FilesBelow(t) = {}
                    THEN PathToolResult(TRUE, "No matches found", walk(t))
                    ELSE IF \E f \in FilesBelow(t) : ~is_relative_to(f, workspace_root)
                    THEN PathToolResult(FALSE, "Search failed", walk(t) \cup FilesBelow(t))
                    ELSE PathToolResult(TRUE, "matches", walk(t) \cup FilesBelow(t))
               [] name = EDIT_FILE /\ arg = Create ->
                    IF path_exists(t) THEN PathToolResult(FALSE, "Error: File already exists", {})
                    ELSE write_new(t, "Failed to edit file", "Successfully created file")
               [] name = EDIT_FILE ->
                    IF ~path_exists(t) THEN PathToolResult(FALSE, "Error: File not found", {})
                    ELSE rewrite(t, "Failed to edit file", "Successfully replaced")
               [] name = APPLY_DIFF ->
                    IF ~path_exists(t) THEN PathToolResult(FALSE, "Error: File not found", {})
                    ELSE rewrite(t, "Failed to apply diff", "Successfully applied diff")

-----------------------------------------------------------------------------
(* The model's replies                                                     *)

CallShape(name, args) == [name |-> name, args |-> args]

\* The tool calls of the replies of Spec: the ordinary tool, the question
\* tool and the completion tool, each with arguments its handler accepts.
StepShapes ==
    { CallShape(READ_FILE, "valid"), CallShape(ASK_FOLLOWUP, "valid"),
      CallShape(ATTEMPT_COMPLETION, "valid") }

\* The tool calls of the replies of SpecTools: the ordinary tool with each
\* kind of argument string, the browser tool, a name that is not registered
\* and the completion tool.
ToolShapes ==
    { CallShape(READ_FILE, a) : a \in ArgStrings }
    \cup { CallShape(BROWSER_ACTION, "valid"), CallShape(UNREGISTERED, "valid"),
           CallShape(ATTEMPT_COMPLETION, "valid") }

CallSeqs(shapes, n) == UNION { [1..k -> shapes] : k \in 1..n }

\* send_stream_request returned None (the request failed).
NoStream == [stream |-> FALSE, reasoning |-> None, content |-> None, calls |-> << >>]

\* A stream, folded by parse_stream into reasoning, content and tool calls.
StreamReply(reasoning, content, calls) ==
    [stream |-> TRUE, reasoning |-> reasoning, content |-> content, calls |-> calls]

\* The replies of a model call: no stream, a reply without tool calls (with
\* or without content) and a reply of 1..n tool calls.
Replies(shapes, n) ==
    {NoStream}
    \cup { StreamReply(None, c, << >>) : c \in {None, "text"} }
    \cup { StreamReply(None, None, cs) : cs \in CallSeqs(shapes, n) }

\* The model numbers the calls of a reply with ids it has not used before.
WithIds(calls, first) ==
    [i \in 1..Len(calls) |-> ToolCall(first + i - 1, calls[i].name, calls[i].args)]

\* The tool calls parse_stream assembles when the stream carries no id
\* fragment for the indexes in `missing`: their id stays the empty string.
assemble(calls, first, missing) ==
    [i \in 1..Len(calls) |->
        ToolCall(IF i \in missing THEN EmptyId ELSE first + i - 1,
                 calls[i].name, calls[i].args)]

-----------------------------------------------------------------------------
(* StreamInterpreter.parse_stream, as step consumes it                     *)

\* An event with the part of its content the model follows: the data of an
\* interrupt, the text of a finished.
EvWith(type, id, content) == [type |-> type, id |-> id, content |-> content]
Ev(type, id) == EvWith(type, id, None)
TerminalTypes == {"finished", "interrupt", "error"}

\* step's full_message = None: parse_stream yielded no full_message.
NoMessage == Message(None, None, None, << >>, NoId)

\* The delta events of a stream.
DeltaEvents(reply) ==
    (IF reply.reasoning # None THEN << Ev("thinking_delta", NoId) >> ELSE << >>)
    \o (IF reply.content # None THEN << Ev("content_delta", NoId) >> ELSE << >>)

\* parse_stream_no_return: after the error event of a missing stream the
\* interpreter goes on and assembles an (empty) full_message.
parse_stream_no_return(reply, calls) ==
    IF ~reply.stream
    THEN [yielded |-> << Ev("error", NoId) >>,
          full |-> Message("assistant", None, None, << >>, NoId)]
    ELSE [yielded |-> DeltaEvents(reply),
          full |-> Message("assistant", reply.content, reply.reasoning, calls, NoId)]

\* parse_stream: the events passed on to the caller of step and the
\* full_message step keeps. Without a stream: one error event, no message.
parse_stream(reply, calls) ==
    IF ~reply.stream
    THEN [yielded |-> << Ev("error", NoId) >>, full |-> NoMessage]
    ELSE [yielded |-> DeltaEvents(reply),
          full |-> Message("assistant", reply.content, reply.reasoning, calls, NoId)]

-----------------------------------------------------------------------------
(* AgentRuntime.step                                                       *)

\* msg_to_save: a reply of reasoning alone gets a synthetic content.
msg_to_save(full) ==
    IF full.content = None /\ full.tool_calls = << >> /\ full.reasoning_content # None
    THEN [full EXCEPT !.content = "(Model stopped after thinking)"]
    ELSE full

\* loop_guard_le: the loop runs once more than the budget.
loop_guard_le(cs) == cs <= max_steps

\* The guard of the while loop of step.
loop_guard(cs) == cs < max_steps

\* after_tool_stops_on_error: a result that is no ToolResult ends the turn.
after_tool_stops_on_error(tc, result) ==
    IF result.is_tool_result /\ result.action = "ask_user" THEN "interrupt"
    ELSE IF tc.name = ATTEMPT_COMPLETION \/ ~result.is_tool_result THEN "finished"
    ELSE "continue"

\* after_tool_no_interrupt: the ask_user signal of a result is not read.
after_tool_no_interrupt(tc, result) ==
    IF tc.name = ATTEMPT_COMPLETION THEN "finished" ELSE "continue"

\* after_tool_no_completion: the completion tool is a tool like any other.
after_tool_no_completion(tc, result) ==
    IF result.is_tool_result /\ result.action = "ask_user" THEN "interrupt"
    ELSE "continue"

\* The two checks after a tool output: the ask_user interrupt, then the
\* completion tool, by its name.
after_tool(tc, result) ==
    IF result.is_tool_result /\ result.action = "ask_user" THEN "interrupt"
    ELSE IF tc.name = ATTEMPT_COMPLETION THEN "finished"
    ELSE "continue"

\* output_id_of_first: every tool message carries the id of the first call.
output_id_of_first(calls, tc) == calls[1].id

\* The id step gives the tool message of call tc of the reply's calls.
output_id(calls, tc) == tc.id

\* A mutator of the context of runtime r: the new history, then autosave.
Mutate(r, h) ==
    /\ history' = [history EXCEPT ![r] = h]
    /\ files' = save_history(files, autosave[r], h)

\* The stream of the model call under way, as step and parse_stream hold it
\* between two suspensions: whether the transport returned a stream, the
\* events parse_stream has still to yield, and the full_message it ends with.
StreamState(open, rest, full) == [open |-> open, rest |-> rest, full |-> full]

\* No model call has been made in this step.
StreamIdle == StreamState(FALSE, << >>, NoMessage)

\* step is an async generator. pc is the place it is suspended at:
\*   "call"        in await send_stream_request
\*   "stream"      in parse_stream: at the yield of a delta (or of the error
\*                 of a missing stream), or awaiting the next chunk
\*   "tool_call"   at the yield of a tool_call event
\*   "tool_output" at the yield of a tool_output event
\*   "last"        at the yield of an event after which the generator
\*                 returns (error, interrupt, finished)
\*   "done"        the generator has returned.
\* Each action below is the code between two suspensions.

\* step up to its first await: the user message is appended, the loop is
\* entered and the request is sent.
StepBegin(t, user_input) ==
    LET r == rt[t] IN
    /\ Mutate(r, add_user_msg(history[r], user_input))
    /\ current_step' = [current_step EXCEPT ![t] = 0]
    /\ stream' = [stream EXCEPT ![t] = StreamIdle]
    /\ tool_calls' = [tool_calls EXCEPT ![t] = << >>]
    /\ pending' = [pending EXCEPT ![t] = << >>]
    /\ events' = [events EXCEPT ![t] = << >>]
    /\ model_calls' = [model_calls EXCEPT ![t] = 0]
    /\ dispatched' = [dispatched EXCEPT ![t] = 0]
    /\ outcome' = [outcome EXCEPT ![t] = None]
    /\ pc' = [pc EXCEPT ![t] = IF loop_guard(0) THEN "call" ELSE "done"]
    /\ turns' = turns + 1

\* send_stream_request returns. With a stream, parse_stream starts to read
\* it and waits for its first chunk; without one it yields its error event
\* at once, and step passes the event on.
ModelCallWith(t, reply, calls) ==
    LET parsed == parse_stream(reply, calls) IN
    /\ pc[t] = "call"
    /\ nextId + Len(reply.calls) - 1 <= MaxIds
    /\ model_calls' = [model_calls EXCEPT ![t] = @ + 1]
    /\ nextId' = nextId + Len(reply.calls)
    /\ pc' = [pc EXCEPT ![t] = "stream"]
    /\ IF reply.stream
       THEN /\ stream' = [stream EXCEPT ![t] = StreamState(TRUE, parsed.yielded, parsed.full)]
            /\ UNCHANGED events
       ELSE /\ stream' = [stream EXCEPT ![t] = StreamState(FALSE, << >>, parsed.full)]
            /\ events' = [events EXCEPT ![t] = @ \o parsed.yielded]
    /\ UNCHANGED << history, files, current_step, tool_calls, pending, dispatched,
                    outcome, turns >>

\* A model call whose stream carries an id for every tool call.
ModelCall(t, reply) == ModelCallWith(t, reply, WithIds(reply.calls, nextId))

\* A chunk arrives and parse_stream yields a delta event, which step passes
\* on; the history does not hold the reply yet.
YieldDelta(t) ==
    /\ pc[t] = "stream"
    /\ stream[t].rest # << >>
    /\ events' = [events EXCEPT ![t] = Append(@, Head(stream[t].rest))]
    /\ stream' = [stream EXCEPT ![t].rest = Tail(@)]
    /\ UNCHANGED << history, files, pc, current_step, tool_calls, pending, model_calls,
                    dispatched, outcome, nextId, turns >>

\* The stream has ended: no message, an empty reply, a reply without tool
\* calls, or a reply with tool calls, the first of which is announced.
StreamEnd(t) ==
    LET r == rt[t]
        full == stream[t].full
        has_content == full.content # None
        has_tools == full.tool_calls # << >>
        has_reasoning == full.reasoning_content # None
    IN
    /\ pc[t] = "stream"
    /\ stream[t].rest = << >>
    /\ UNCHANGED << current_step, model_calls, dispatched, outcome, stream, nextId, turns >>
    /\ IF full = NoMessage
       THEN /\ events' = [events EXCEPT ![t] = Append(@, Ev("error", NoId))]
            /\ pc' = [pc EXCEPT ![t] = "last"]
            /\ UNCHANGED << history, files, tool_calls, pending >>
       ELSE IF ~has_content /\ ~has_tools /\ ~has_reasoning
       THEN /\ events' = [events EXCEPT ![t] = Append(@, EvWith("finished", NoId, "Done"))]
            /\ pc' = [pc EXCEPT ![t] = "last"]
            /\ UNCHANGED << history, files, tool_calls, pending >>
       ELSE /\ Mutate(r, add_assistant_msg(history[r], msg_to_save(full)))
            /\ IF has_tools
               THEN /\ tool_calls' = [tool_calls EXCEPT ![t] = full.tool_calls]
                    /\ pending' = [pending EXCEPT ![t] = full.tool_calls]
                    /\ events' = [events EXCEPT ![t] =
                                    Append(@, Ev("tool_call", full.tool_calls[1].id))]
                    /\ pc' = [pc EXCEPT ![t] = "tool_call"]
               ELSE /\ events' = [events EXCEPT ![t] =
                                    Append(@, EvWith("finished", NoId, "Done"))]
                    /\ pc' = [pc EXCEPT ![t] = "last"]
                    /\ UNCHANGED << tool_calls, pending >>

\* From the yield of tool_call into a coroutine function: the arguments of
\* the announced call are parsed and validated, and execute awaits the
\* handler, which suspends.
ToolAwait(t) ==
    /\ pc[t] = "tool_call"
    /\ suspends(Head(pending[t]))
    /\ pc' = [pc EXCEPT ![t] = "in_tool"]
    /\ UNCHANGED << history, files, current_step, tool_calls, pending, events, model_calls,
                    dispatched, outcome, stream, nextId, turns >>

\* From the yield of tool_call (for a coroutine function: from the
\* suspension in its handler) to the yield of tool_output: the arguments of
\* the announced call are parsed, the tool is executed, its output is
\* appended to the history and announced.
ToolStep(t, how) ==
    LET r == rt[t]
        tc == Head(pending[t])
        result == run_tool(tc, env[r], how, todo_state).result
    IN
    /\ pc[t] \in {"tool_call", "in_tool"}
    /\ pc[t] = "in_tool" <=> suspends(tc)
    /\ Mutate(r, add_tool_output(history[r], output_id(tool_calls[t], tc), result.output))
    /\ events' = [events EXCEPT ![t] = Append(@, Ev("tool_output", tc.id))]
    /\ dispatched' = [dispatched EXCEPT ![t] = @ + 1]
    /\ outcome' = [outcome EXCEPT ![t] = how]
    /\ pc' = [pc EXCEPT ![t] = "tool_output"]
    /\ UNCHANGED << current_step, tool_calls, pending, model_calls, stream, nextId, turns >>

\* From the yield of tool_output on: the interrupt and completion checks on
\* the result step holds (result_obj of the call just executed: a todo
\* tool returns the same once more on the list it left), then the next call
\* of the reply is announced, or (after the last call) current_step grows,
\* the loop guard is read again and the next request is sent.
AfterTool(t) ==
    LET r == rt[t]
        tc == Head(pending[t])
        result == run_tool(tc, env[r], outcome[t], todo_state).result
        next == after_tool(tc, result)
    IN
    /\ pc[t] = "tool_output"
    /\ UNCHANGED << history, files, model_calls, dispatched, outcome, stream, nextId, turns >>
    /\ CASE next = "interrupt" ->
              /\ events' = [events EXCEPT ![t] =
                              Append(@, EvWith("interrupt", tc.id, result.action))]
              /\ pending' = [pending EXCEPT ![t] = << >>]
              /\ tool_calls' = [tool_calls EXCEPT ![t] = << >>]
              /\ pc' = [pc EXCEPT ![t] = "last"]
              /\ UNCHANGED current_step
         [] next = "finished" ->
              /\ events' = [events EXCEPT ![t] =
                              Append(@, EvWith("finished", tc.id, result.output))]
              /\ pending' = [pending EXCEPT ![t] = << >>]
              /\ tool_calls' = [tool_calls EXCEPT ![t] = << >>]
              /\ pc' = [pc EXCEPT ![t] = "last"]
              /\ UNCHANGED current_step
         [] OTHER ->
              /\ pending' = [pending EXCEPT ![t] = Tail(@)]
              /\ IF Tail(pending[t]) # << >>
                 THEN /\ events' = [events EXCEPT ![t] =
                                      Append(@, Ev("tool_call", pending[t][2].id))]
                      /\ pc' = [pc EXCEPT ![t] = "tool_call"]
                      /\ UNCHANGED << current_step, tool_calls >>
                 ELSE /\ tool_calls' = [tool_calls EXCEPT ![t] = << >>]
                      /\ current_step' = [current_step EXCEPT ![t] = @ + 1]
                      /\ pc' = [pc EXCEPT ![t] =
                                  IF loop_guard(current_step[t] + 1) THEN "call" ELSE "done"]
                      /\ UNCHANGED events

\* The consumer asks for the event after the last one: the generator
\* returns.
StepEnds(t) ==
    /\ pc[t] = "last"
    /\ pc' = [pc EXCEPT ![t] = "done"]
    /\ UNCHANGED << history, files, current_step, tool_calls, pending, events, model_calls,
                    dispatched, outcome, stream, nextId, turns >>

\* The places a step that has begun and not returned is suspended at.
StepPlaces == {"call", "stream", "tool_call", "in_tool", "tool_output", "last"}

\* The generator runs on from a yield, or a chunk arrives.
StepResume(t) ==
    \/ YieldDelta(t)
    \/ StreamEnd(t)
    \/ AfterTool(t)
    \/ StepEnds(t)

-----------------------------------------------------------------------------
(* StreamInterpreter.parse_stream, chunk by chunk                          *)

\* A text is a sequence of characters; the empty sequence stands for "" and
\* for an absent field alike (both are false to `if`).
Fragments == { << >>, << "a" >>, << "b" >>, << "a", "b" >> }
Indexes == {0, 1}

\* One fragment of a tool call: tc.index, tc.id, tc.function.name and
\* tc.function.arguments.
ToolDelta(index, id, name, arguments) ==
    [index |-> index, id |-> id, name |-> name, arguments |-> arguments]

\* A chunk: whether it has choices, and the delta of its first choice.
Delta(choices, reasoning, content, tcs) ==
    [choices |-> choices, reasoning_content |-> reasoning, content |-> content,
     tool_calls |-> tcs]

\* The chunks of the streams: a chunk without choices, chunks of one
\* fragment of one field, and chunks that carry several fields at once.
DeltaChunks ==
    { Delta(FALSE, << >>, << >>, << >>) }
    \cup { Delta(TRUE, f, << >>, << >>) : f \in {<< "a" >>, << "a", "b" >>} }
    \cup { Delta(TRUE, << >>, f, << >>) : f \in Fragments \ {<< >>} }
    \cup { Delta(TRUE, << >>, << >>, << ToolDelta(i, id, << >>, a) >>) :
             i \in Indexes, id \in {<< >>, << "a" >>}, a \in {<< >>, << "b" >>} }
    \cup { Delta(TRUE, << "b" >>, << "b" >>,
                 << ToolDelta(1, << "b" >>, << "a" >>, << >>),
                    ToolDelta(0, << >>, << "a" >>, << "a" >>) >>) }

ChunkSeqs(n) == UNION { [1..k -> DeltaChunks] : k \in 0..n }

\* A slot of tool_calls_buffer; `seen` says that the index is a key of it.
EmptySlot == [seen |-> FALSE, id |-> << >>, name |-> << >>, args |-> << >>]

\* The accumulators before the first chunk.
Accumulators ==
    [final_content |-> << >>, reasoning_content |-> << >>,
     tool_calls_buffer |-> [i \in Indexes |-> EmptySlot]]

\* Case C: the fragments of one chunk are appended to their slots.
RECURSIVE add_tool_deltas(_, _)
add_tool_deltas(buffer, tcs) ==
    IF tcs = << >> THEN buffer
    ELSE LET tc == Head(tcs)
             slot == buffer[tc.index]
         IN  add_tool_deltas(
                 [buffer EXCEPT ![tc.index] =
                     [seen |-> TRUE, id |-> slot.id \o tc.id,
                      name |-> slot.name \o tc.name, args |-> slot.args \o tc.arguments]],
                 Tail(tcs))

\* on_chunk_overwrites: each fragment replaces what its accumulator held.
on_chunk_overwrites(acc, chunk) ==
    IF ~chunk.choices THEN acc
    ELSE [final_content |-> IF chunk.content # << >> THEN chunk.content
                            ELSE acc.final_content,
          reasoning_content |-> acc.reasoning_content \o chunk.reasoning_content,
          tool_calls_buffer |-> add_tool_deltas(acc.tool_calls_buffer, chunk.tool_calls)]

\* The body of the loop over the chunks.
on_chunk(acc, chunk) ==
    IF ~chunk.choices THEN acc
    ELSE [final_content |-> acc.final_content \o chunk.content,
          reasoning_content |-> acc.reasoning_content \o chunk.reasoning_content,
          tool_calls_buffer |-> add_tool_deltas(acc.tool_calls_buffer, chunk.tool_calls)]

RECURSIVE accumulate(_, _)
accumulate(acc, cs) ==
    IF cs = << >> THEN acc ELSE accumulate(on_chunk(acc, Head(cs)), Tail(cs))

\* `x if x else None`.
OrNone(x) == [none |-> x = << >>, value |-> x]

\* assembled_tool_calls_descending: the slots are listed from the highest
\* index down.
RECURSIVE assembled_tool_calls_descending(_, _)
assembled_tool_calls_descending(buffer, idx) ==
    IF idx \notin Indexes THEN << >>
    ELSE assembled_tool_calls_descending(buffer, idx + 1)
         \o (IF buffer[idx].seen
             THEN << [id |-> buffer[idx].id, type |-> "function",
                      name |-> buffer[idx].name, arguments |-> buffer[idx].args] >>
             ELSE << >>)

\* The assembled tool calls, by ascending index.
RECURSIVE assembled_tool_calls(_, _)
assembled_tool_calls(buffer, idx) ==
    IF idx \notin Indexes THEN << >>
    ELSE (IF buffer[idx].seen
          THEN << [id |-> buffer[idx].id, type |-> "function",
                   name |-> buffer[idx].name, arguments |-> buffer[idx].args] >>
          ELSE << >>)
         \o assembled_tool_calls(buffer, idx + 1)

\* The full_message parse_stream assembles from its accumulators when the
\* stream has ended.
full_message_from(acc) ==
    [role |-> "assistant",
     reasoning_content |-> OrNone(acc.reasoning_content),
     content |-> OrNone(acc.final_content),
     tool_calls |-> OrNone(assembled_tool_calls(acc.tool_calls_buffer, 0))]

\* The full_message parse_stream yields for a stream of chunks.
full_message_of(cs) == full_message_from(accumulate(Accumulators, cs))

\* An event of step, with the content the model follows.
ChunkEvent(type, id, content) == [type |-> type, id |-> id, content |-> content]

\* parse_stream between two suspensions: its accumulators, the number of
\* chunks it has handled to their end, and where it stands: awaiting the
\* next chunk ("chunk"), or at the yield of the thinking_delta ("thinking")
\* or of the content_delta ("content") of the chunk it is handling.
Interpreter(acc, read, at) == [acc |-> acc, read |-> read, at |-> at]
NewInterpreter == Interpreter(Accumulators, 0, "chunk")

\* What the cases A (reasoning), B (content) and C (tool calls) of the loop
\* body read of a chunk.
CaseA(chunk) == Delta(chunk.choices, chunk.reasoning_content, << >>, << >>)
CaseB(chunk) == Delta(chunk.choices, << >>, chunk.content, << >>)
CaseC(chunk) == Delta(chunk.choices, << >>, << >>, chunk.tool_calls)

\* The loop body on a chunk from where the interpreter stands to its next
\* suspension: the yield of case A, the yield of case B, or (case C yields
\* nothing) the wait for the next chunk.
handle_chunk(i, chunk) ==
    IF i.at = "chunk" /\ chunk.choices /\ chunk.reasoning_content # << >>
    THEN [interpreter |-> Interpreter(on_chunk(i.acc, CaseA(chunk)), i.read, "thinking"),
          yielded |-> << ChunkEvent("thinking_delta", << >>, chunk.reasoning_content) >>]
    ELSE IF i.at \in {"chunk", "thinking"} /\ chunk.choices /\ chunk.content # << >>
    THEN [interpreter |-> Interpreter(on_chunk(i.acc, CaseB(chunk)), i.read, "content"),
          yielded |-> << ChunkEvent("content_delta", << >>, chunk.content) >>]
    ELSE [interpreter |-> Interpreter(on_chunk(i.acc, CaseC(chunk)), i.read + 1, "chunk"),
          yielded |-> << >>]

\* msg_to_save of step for a message of texts.
SyntheticContent == << "(Model stopped after thinking)" >>

\* chunk_msg_as_parsed: the message is saved as parse_stream yielded it.
chunk_msg_as_parsed(full) == full

chunk_msg_to_save(full) ==
    IF full.content.none /\ full.tool_calls.none /\ ~full.reasoning_content.none
    THEN [full EXCEPT !.content = OrNone(SyntheticContent)]
    ELSE full

\* What step gets for a call of the streams: no tool bears the names of the
\* streams, and of their argument strings only the empty one parses.
chunk_tool_output(tc) ==
    IF tc.arguments = << >> THEN "Error: Tool not found"
    ELSE "Error: Invalid JSON arguments generated"

\* The tool message add_tool_output appends for a call of the streams.
ChunkToolMsg(id, content) == [role |-> "tool", tool_call_id |-> id, content |-> content]

\* parse_stream has not run.
NotParsed ==
    [role |-> None, reasoning_content |-> OrNone(<< >>), content |-> OrNone(<< >>),
     tool_calls |-> OrNone(<< >>)]

-----------------------------------------------------------------------------
(* ToolExecutor.register, register_mcp_tool and get_definitions            *)

\* A tool function: its __name__ and the function object.
Func(name, impl) == [name |-> name, impl |-> impl]
Funcs ==
    { Func(READ_FILE, "io.read_file"), Func(READ_FILE, "other.read_file"),
      Func(ATTEMPT_COMPLETION, "interaction.attempt_completion") }

\* The tools an MCP server lists; one bears the name of a built-in tool.
McpTools == { "remote_tool", READ_FILE }

\* generate_openai_schema, and the schema register_mcp_tool builds.
generate_openai_schema(func) == [name |-> func.name, of |-> func.impl]
mcp_schema(tool) == [name |-> tool, of |-> "execute_mcp_tool"]

ToolNames == { f.name : f \in Funcs } \cup McpTools

\* ToolExecutor.__init__.
ExecutorInit == [execution_map |-> [n \in ToolNames |-> None], schemas |-> << >>]

register(ex, func) ==
    [execution_map |-> [ex.execution_map EXCEPT ![func.name] = func.impl],
     schemas |-> Append(ex.schemas, generate_openai_schema(func))]

register_mcp_tool(ex, tool) ==
    [execution_map |-> [ex.execution_map EXCEPT ![tool] = "execute_mcp_tool"],
     schemas |-> Append(ex.schemas, mcp_schema(tool))]

get_definitions(ex) == ex.schemas

\* The first lines of execute: the function a name is dispatched to.
dispatch(ex, name) == ex.execution_map[name]

-----------------------------------------------------------------------------
(* McpClient: request, _get_next_id and _handle_message                    *)

\* The result or error bodies a server puts into its responses.
McpBodies == {"r1", "r2"}

\* A response of the server; id 0 stands for a message without id, and
\* `method` says whether the message has a "method" key.
McpMessage(id, error, body) ==
    [id |-> id, error |-> error, body |-> body, method |-> FALSE]

\* A request (with id) or a notification (id 0) of the server: a message
\* with a "method" key, without "result" and without "error".
McpServerCall(id) == [id |-> id, error |-> FALSE, body |-> None, method |-> TRUE]
NoReply == McpMessage(0, FALSE, None)

\* One call of request: its id, where it stands, how often its future was
\* completed and by which message.
McpCall(id, state, completions, reply) ==
    [id |-> id, state |-> state, completions |-> completions, reply |-> reply]

\* McpClient.__init__; _pending_requests maps an id to the call that owns
\* the future, 0 where the table has no entry; `closed` says that close has
\* gone on to close the transport. receive_task is None before connect,
\* "running", "done" once _receive_loop has returned, "cancelling" from
\* cancel() until the task runs again, and "cancelled" after that.
McpInit(ids) ==
    [request_id |-> 0, pending_requests |-> [i \in ids |-> 0], calls |-> << >>,
     receive_task |-> None, closed |-> FALSE]

\* connect: the receive loop is started as a task.
create_receive_task(c) == [c EXCEPT !.receive_task = "running"]

\* _receive_loop returns: transport.receive() is exhausted or has raised.
receive_loop_ends(c) == [c EXCEPT !.receive_task = "done"]

\* close up to its first suspension. A receive task that still runs is
\* asked to cancel, and close is suspended in `await self._receive_task`.
\* cancel() does nothing to a task that has finished and the await of such
\* a task returns at once (no task exists before connect): close goes on
\* to transport.close().
close(c) ==
    IF c.receive_task = "running"
    THEN [c EXCEPT !.receive_task = "cancelling"]
    ELSE [c EXCEPT !.closed = TRUE]

get_next_id(c) == c.request_id + 1

\* request up to its first await: the id, the future, the table entry.
request(c) ==
    LET request_id == get_next_id(c) IN
    [c EXCEPT !.request_id = request_id,
              !.pending_requests[request_id] = Len(c.calls) + 1,
              !.calls = Append(c.calls, McpCall(request_id, "sending", 0, NoReply))]

\* What the caller of a call gets from `return await future` once the
\* future is done.
settled(call) ==
    [call EXCEPT !.state = IF call.reply.error THEN "raised" ELSE "returned"]

\* request after transport.send: the send went through and the call awaits
\* its future (a future that is done already is returned without a
\* suspension), or the send raised and the entry is popped.
sent(c, n, ok) ==
    LET call == c.calls[n] IN
    IF ok
    THEN [c EXCEPT !.calls[n] =
             IF call.completions > 0 THEN settled(call)
             ELSE [call EXCEPT !.state = "waiting"]]
    ELSE [c EXCEPT !.pending_requests[call.id] = 0,
                   !.calls[n].state = "send_failed"]

\* The future of call n is completed with `message` (set_result or
\* set_exception): a caller that awaits the future is scheduled, and runs
\* in a later callback of the event loop.
complete(c, n, message) ==
    [c EXCEPT !.calls[n].completions = @ + 1, !.calls[n].reply = message]

\* The caller of call n, which awaited its future, runs again at
\* `return await future`.
resumed(c, n) == [c EXCEPT !.calls[n] = settled(c.calls[n])]

\* handle_message_keeps_entry: the entry stays in the table.
handle_message_keeps_entry(c, message) ==
    IF message.id # 0 /\ message.id \in DOMAIN c.pending_requests
       /\ c.pending_requests[message.id] # 0
    THEN complete(c, c.pending_requests[message.id], message)
    ELSE c

\* _handle_message: a response whose id is in the table pops the entry and
\* completes its future; every other message is dropped.
handle_message(c, message) ==
    IF message.id # 0 /\ message.id \in DOMAIN c.pending_requests
       /\ c.pending_requests[message.id] # 0
    THEN complete([c EXCEPT !.pending_requests[message.id] = 0],
                  c.pending_requests[message.id], message)
    ELSE c

-----------------------------------------------------------------------------
(* SkillsManager and ContextManager.__init__                               *)

\* skills_manager=None, and a SkillsManager after load_skills: the names of
\* the skills it found.
NoSkillsManager == [present |-> FALSE, skills |-> << >>]
SkillsManager(skills) == [present |-> TRUE, skills |-> skills]

\* The methods class SkillsManager defines.
SkillsManagerMethods ==
    { "__init__", "load_skills", "get_all_metadata", "search_skills",
      "_calculate_relevance", "get_skill_content", "get_skill_by_name",
      "reload_skills", "get_skill_count", "skill_exists" }

\* self.skills_manager.get_metadata_summary(): the attribute lookup, then the
\* call.
get_metadata_summary(manager) ==
    IF "get_metadata_summary" \in SkillsManagerMethods
    THEN [raised |-> None, value |-> "summary"]
    ELSE [raised |-> "AttributeError", value |-> None]

\* _build_system_prompt of a context with this skills manager: the base
\* prompt, and the section of the skills when there is a manager.
build_system_prompt_with(workspace, manager) ==
    LET skills_summary == get_metadata_summary(manager) IN
    IF ~manager.present THEN [raised |-> None, prompt |-> build_system_prompt(workspace)]
    ELSE IF skills_summary.raised # None
    THEN [raised |-> skills_summary.raised, prompt |-> None]
    ELSE [raised |-> None,
          prompt |-> build_system_prompt(workspace) \o " ## Available Skills "
                     \o skills_summary.value]

\* ContextManager.__init__ with a skills manager: the history of the new
\* context, or the exception that escapes.
ContextWith(workspace, manager) ==
    LET system_prompt == build_system_prompt_with(workspace, manager) IN
    IF system_prompt.raised # None
    THEN [raised |-> system_prompt.raised, history |-> << >>]
    ELSE [raised |-> None, history |-> << SystemMsg(system_prompt.prompt) >>]

-----------------------------------------------------------------------------
(* AgentRuntime._robust_json_parse and json.loads on texts                 *)

\* A text is a sequence of characters; FENCE stands for the three backticks
\* of a Markdown fence.
QUOTE == "\""
FENCE == "fence"
NEWLINE == "\n"
Whitespace == {" ", NEWLINE}
JsonChars == {"{", "}", "[", "]", QUOTE, ":", "a", " ", NEWLINE, FENCE}

\* str.strip().
RECURSIVE lstrip(_)
lstrip(text) ==
    IF text # << >> /\ Head(text) \in Whitespace THEN lstrip(Tail(text)) ELSE text
RECURSIVE rstrip(_)
rstrip(text) ==
    IF text # << >> /\ text[Len(text)] \in Whitespace
    THEN rstrip(SubSeq(text, 1, Len(text) - 1)) ELSE text
strip(text) == rstrip(lstrip(text))

\* str.splitlines() of a text that does not end in a newline, and
\* "\n".join(lines).
RECURSIVE splitlines(_, _)
splitlines(text, line) ==
    IF text = << >> THEN << line >>
    ELSE IF Head(text) = NEWLINE THEN << line >> \o splitlines(Tail(text), << >>)
    ELSE splitlines(Tail(text), Append(line, Head(text)))
RECURSIVE join(_)
join(lines) ==
    IF lines = << >> THEN << >>
    ELSE IF Len(lines) = 1 THEN lines[1]
    ELSE lines[1] \o << NEWLINE >> \o join(Tail(lines))

\* The scanner of json: where it stands after a value and the value, written
\* without the whitespace between its tokens.
ScanFailed == [ok |-> FALSE, pos |-> 0, value |-> << >>]
Scanned(pos, value) == [ok |-> TRUE, pos |-> pos, value |-> value]

RECURSIVE skip_whitespace(_, _)
skip_whitespace(text, i) ==
    IF i <= Len(text) /\ text[i] \in Whitespace THEN skip_whitespace(text, i + 1) ELSE i

\* py_scanstring after the opening quote: up to the closing quote; a control
\* character inside the string is an error.
RECURSIVE scanstring(_, _, _)
scanstring(text, i, chars) ==
    IF i > Len(text) THEN ScanFailed
    ELSE IF text[i] = QUOTE THEN Scanned(i + 1, << QUOTE >> \o chars \o << QUOTE >>)
    ELSE IF text[i] = NEWLINE THEN ScanFailed
    ELSE scanstring(text, i + 1, Append(chars, text[i]))

\* scan_once: a string, an object or an array that starts at i. The texts
\* have no comma, so an object has one member at most and an array one item.
RECURSIVE scan_once(_, _)
scan_once(text, i) ==
    IF i > Len(text) THEN ScanFailed
    ELSE IF text[i] = QUOTE THEN scanstring(text, i + 1, << >>)
    ELSE IF text[i] = "{" THEN
        LET j == skip_whitespace(text, i + 1) IN
        IF j <= Len(text) /\ text[j] = "}" THEN Scanned(j + 1, << "{", "}" >>)
        ELSE IF j > Len(text) \/ text[j] # QUOTE THEN ScanFailed
        ELSE LET k == scanstring(text, j + 1, << >>)
                 colon == skip_whitespace(text, k.pos)
             IN  IF ~k.ok \/ colon > Len(text) THEN ScanFailed
                 ELSE IF text[colon] # ":" THEN ScanFailed
                 ELSE LET v == scan_once(text, skip_whitespace(text, colon + 1))
                          end == skip_whitespace(text, v.pos)
                      IN  IF ~v.ok \/ end > Len(text) THEN ScanFailed
                          ELSE IF text[end] # "}" THEN ScanFailed
                          ELSE Scanned(end + 1, << "{" >> \o k.value \o << ":" >>
                                                \o v.value \o << "}" >>)
    ELSE IF text[i] = "[" THEN
        LET j == skip_whitespace(text, i + 1) IN
        IF j <= Len(text) /\ text[j] = "]" THEN Scanned(j + 1, << "[", "]" >>)
        ELSE LET v == scan_once(text, j)
                 end == skip_whitespace(text, v.pos)
             IN  IF ~v.ok \/ end > Len(text) THEN ScanFailed
                 ELSE IF text[end] # "]" THEN ScanFailed
                 ELSE Scanned(end + 1, << "[" >> \o v.value \o << "]" >>)
    ELSE ScanFailed

\* json.loads: one value between whitespace, or JSONDecodeError.
Returned(value) == [done |-> TRUE, raised |-> FALSE, value |-> value]
JSONDecodeError == [done |-> TRUE, raised |-> TRUE, value |-> << >>]
NotCalled == [done |-> FALSE, raised |-> FALSE, value |-> << >>]
json_loads(text) ==
    LET v == scan_once(text, skip_whitespace(text, 1)) IN
    IF v.ok /\ skip_whitespace(text, v.pos) > Len(text) THEN Returned(v.value)
    ELSE JSONDecodeError

\* The five repairs, in the order they are tried.
attempts(clean_str) ==
    << clean_str \o << QUOTE >>, clean_str \o << QUOTE, "}" >>, clean_str \o << "}" >>,
       clean_str \o << QUOTE, "]" >>, clean_str \o << "]" >> >>

\* The loop over the attempts: the first that parses is returned.
RECURSIVE first_parsed(_)
first_parsed(texts) ==
    IF texts = << >> THEN JSONDecodeError
    ELSE IF ~json_loads(Head(texts)).raised THEN json_loads(Head(texts))
    ELSE first_parsed(Tail(texts))

\* Step 1: the lines of the fence are removed from a text that starts with
\* a fence.
unfenced(clean_str) ==
    LET lines == splitlines(clean_str, << >>)
        body == IF lines[1] # << >> /\ Head(lines[1]) = FENCE THEN Tail(lines) ELSE lines
        last == IF body = << >> THEN << >> ELSE body[Len(body)]
        inner == IF body # << >> /\ last # << >> /\ Head(last) = FENCE
                 THEN SubSeq(body, 1, Len(body) - 1) ELSE body
    IN  strip(join(inner))

\* _robust_json_parse on a text.
robust_json_parse_text(text) ==
    LET stripped == strip(text)
        clean_str == IF stripped # << >> /\ Head(stripped) = FENCE
                     THEN unfenced(stripped) ELSE stripped
    IN  IF stripped = << >> THEN Returned(<< "{", "}" >>)
        ELSE IF ~json_loads(clean_str).raised THEN json_loads(clean_str)
        ELSE first_parsed(attempts(clean_str))

-----------------------------------------------------------------------------
(* SseTransport: start, send and receive                                   *)

\* A URL: its scheme and host (empty for a relative URL) and its path.
Url(host, path) == [host |-> host, path |-> path]
SseUrl == Url("http://mcp", "/sse")

\* self.endpoint before the endpoint event: None, false to `if not`.
NoEndpoint == Url("", "")

\* The data of the endpoint events of a server: a path or a full URL.
Endpoints == { Url("", "/messages"), Url("http://other", "/messages") }

\* urljoin(self.url, self.endpoint) for an endpoint that is an absolute path.
urljoin(base, url) == Url(base.host, url.path)

\* An event of the SSE stream: its type, and its data read as an endpoint
\* or as a JSON-RPC message (`json` says whether json.loads accepts it).
SseEvent(event, endpoint, json, message) ==
    [event |-> event, endpoint |-> endpoint, json |-> json, message |-> message]
SseEvents ==
    { SseEvent("endpoint", e, FALSE, NoReply) : e \in Endpoints }
    \cup { SseEvent("message", NoEndpoint, TRUE, McpMessage(1, FALSE, "r1")),
           SseEvent("message", NoEndpoint, FALSE, NoReply) }

\* SseTransport.__init__, the stream of its server and the connect call
\* of the client that owns it.
SseInit ==
    [client |-> FALSE, endpoint |-> NoEndpoint, opened |-> FALSE, wire |-> << >>,
     served |-> 0, posted |-> << >>, connect |-> "idle"]

\* SseTransport.start.
sse_start(t) == [t EXCEPT !.client = TRUE]

\* SseTransport.send: the two checks, then the POST to the endpoint.
sse_send(t, message) ==
    IF ~t.client THEN [transport |-> t, raised |-> "Transport not started"]
    ELSE IF t.endpoint = NoEndpoint THEN [transport |-> t, raised |-> "Endpoint not ready"]
    ELSE LET post_url == IF t.endpoint.host # "" THEN t.endpoint
                         ELSE urljoin(SseUrl, t.endpoint)
         IN  [transport |-> [t EXCEPT !.posted =
                                Append(@, [url |-> post_url, message |-> message])],
              raised |-> None]

\* SseTransport.receive for one event of the stream: the endpoint event
\* sets self.endpoint, a message event whose data is JSON is yielded.
sse_on_event(t, ev) ==
    IF ev.event = "endpoint" THEN [t EXCEPT !.endpoint = ev.endpoint] ELSE t
sse_yields(ev) == ev.event = "message" /\ ev.json

\* McpClient.connect up to its first suspension: the transport is started,
\* the receive loop is created as a task, and request("initialize") runs
\* into transport.send. When send raises at one of its checks the entry is
\* popped and the exception leaves connect; else the POST is under way and
\* the call stays in send until the POST returns.
connect(c, t) ==
    LET started == sse_start(t)
        asked == request(create_receive_task(c))
        send == sse_send(started, "initialize")
    IN  IF send.raised # None
        THEN [client |-> sent(asked, Len(asked.calls), FALSE),
              transport |-> [send.transport EXCEPT !.connect = "raised"]]
        ELSE [client |-> asked,
              transport |-> [send.transport EXCEPT !.connect = "posting"]]

-----------------------------------------------------------------------------
(* Spec: one runtime, one caller, turn after turn                          *)

\* No HTTP request has been served.
NoResponse ==
    [route |-> None, user |-> 0, status |-> 0, id |-> << >>, ids |-> {}, shows |-> {},
     history |-> << >>]

WebIdle ==
    /\ active_sessions = << >>
    /\ now = 0
    /\ response = NoResponse
    /\ requests = 0
    /\ unchatted = {}

\* No call of the path guard or of a file tool is under way.
NoCall == [tool |-> None, path |-> InputPath(FALSE, << >>), root |-> << >>, arg |-> None]
NoResult ==
    [done |-> FALSE, raised |-> FALSE, value |-> << >>,
     success |-> FALSE, output |-> None, touched |-> {}]

PathIdle ==
    /\ path_call = NoCall
    /\ path_result = NoResult

\* The working directory is where the process was started, no call has
\* raised; the MCP client, the executor and the interpreter are new; the
\* process holds the skills manager `manager`.
AuxWith(manager) ==
    /\ cwd = Cwd
    /\ raised = None
    /\ mcp = McpInit({})
    /\ executor = ExecutorInit
    /\ chunks = << >>
    /\ full_message = NotParsed
    /\ interpreter = NewInterpreter
    /\ todo_state = NoTodos
    /\ messages_to_send = << >>
    /\ sse = SseInit
    /\ json_text = << >>
    /\ json_result = NotCalled
    /\ skills_manager = manager

\* The same, in a process that builds its runtimes without a skills manager.
AuxIdle == AuxWith(NoSkillsManager)

TaskInit(tasks, start) ==
    /\ pc = [t \in tasks |-> start]
    /\ current_step = [t \in tasks |-> 0]
    /\ stream = [t \in tasks |-> StreamIdle]
    /\ tool_calls = [t \in tasks |-> << >>]
    /\ pending = [t \in tasks |-> << >>]
    /\ events = [t \in tasks |-> << >>]
    /\ model_calls = [t \in tasks |-> 0]
    /\ dispatched = [t \in tasks |-> 0]
    /\ outcome = [t \in tasks |-> None]
    /\ nextId = 1
    /\ turns = 0

\* A runtime as AgentRuntime(transport, executor, env=..., autosave_file=...)
\* builds it when no skills manager is passed (skills_manager=None, the
\* default of the constructor): env "cli" without autosave, or env "web"
\* with the autosave file of a session that has no file yet.
Init ==
    /\ \E e \in {"cli", "web"} :
          /\ env = [r \in {CliTask} |-> e]
          /\ autosave = [r \in {CliTask} |-> IF e = "web" THEN "1:s1" ELSE NoFile]
    /\ history = [r \in {CliTask} |-> ContextInit]
    /\ created = {CliTask}
    /\ files = [k \in SessionKeys |-> Missing]
    /\ session_runtimes = [k \in SessionKeys |-> NoRuntime]
    /\ rt = [t \in {CliTask} |-> CliTask]
    /\ TaskInit({CliTask}, "idle")
    /\ WebIdle
    /\ PathIdle
    /\ AuxIdle

\* The caller sends the next input once the previous step has ended.
NextInput(t, user_input) ==
    /\ pc[t] \in {"idle", "done"}
    /\ turns < MaxTurns
    /\ StepBegin(t, user_input)
    /\ UNCHANGED << rt, nextId, rtVars, regVars, webVars, pathVars, auxVars >>

\* The handlers of the ordinary tool and of the browser tool return or
\* raise; the others return, and what a todo tool does follows from
\* todo_state.
OutcomesOf(tc) ==
    IF tc.name \in {READ_FILE, BROWSER_ACTION} THEN HandlerOutcomes ELSE {"return"}

Reply(t) ==
    /\ \E reply \in Replies(StepShapes, MaxCalls) : ModelCall(t, reply)
    /\ UNCHANGED << rt, rtVars, regVars, webVars, pathVars, auxVars >>

Tool(t) ==
    /\ ToolStep(t, "return")
    /\ UNCHANGED << rt, rtVars, regVars, webVars, pathVars, auxVars >>

\* The caller iterates the generator: the step runs on to its next
\* suspension.
Resume(t) ==
    /\ StepResume(t)
    /\ UNCHANGED << rt, rtVars, regVars, webVars, pathVars, auxVars >>

Next ==
    \/ \E u \in UserInputs : NextInput(CliTask, u)
    \/ Reply(CliTask)
    \/ Resume(CliTask)
    \/ Tool(CliTask)

Spec == Init /\ [][Next]_vars

\* SpecTools: one step of the same runtime, with replies whose calls fail in
\* each way the code distinguishes.
OneInput(t, user_input) ==
    /\ pc[t] = "idle"
    /\ NextInput(t, user_input)

ToolsReply(t) ==
    /\ \E reply \in Replies(ToolShapes, MaxCalls) : ModelCall(t, reply)
    /\ UNCHANGED << rt, rtVars, regVars, webVars, pathVars, auxVars >>

ToolsTool(t) ==
    /\ pc[t] \in {"tool_call", "in_tool"}
    /\ \E how \in OutcomesOf(Head(pending[t])) : ToolStep(t, how)
    /\ UNCHANGED << rt, rtVars, regVars, webVars, pathVars, auxVars >>

\* The browser tool is awaited.
ToolsAwait(t) ==
    /\ ToolAwait(t)
    /\ UNCHANGED << rt, rtVars, regVars, webVars, pathVars, auxVars >>

NextTools ==
    \/ \E u \in UserInputs : OneInput(CliTask, u)
    \/ ToolsReply(CliTask)
    \/ Resume(CliTask)
    \/ ToolsAwait(CliTask)
    \/ ToolsTool(CliTask)

SpecTools == Init /\ [][NextTools]_vars

\* SpecStream: one step of the same runtime, with streams that leave out
\* the id fragment of some of their tool calls.
IdReply(t) ==
    /\ \E reply \in Replies(StepShapes, MaxCalls) :
          \E missing \in SUBSET (1..Len(reply.calls)) :
              ModelCallWith(t, reply, assemble(reply.calls, nextId, missing))
    /\ UNCHANGED << rt, rtVars, regVars, webVars, pathVars, auxVars >>

NextStream ==
    \/ \E u \in UserInputs : OneInput(CliTask, u)
    \/ IdReply(CliTask)
    \/ Resume(CliTask)
    \/ Tool(CliTask)

SpecStream == Init /\ [][NextStream]_vars

-----------------------------------------------------------------------------
(* get_or_create_runtime (server.py): the runtime of a session              *)

\* A session file as an earlier process left it: its own system prompt, a
\* question and its answer.
SavedSession ==
    << SystemMsg("old_prompt"), UserMsg("saved question"),
       Message("assistant", "saved answer", None, << >>, NoId) >>

\* AgentRuntime(..., skills_manager=manager, ...) followed by step 6 of
\* get_or_create_runtime: the exception that leaves the constructor, or a
\* new context and the history of the session file when the file exists
\* (an exception of load_history is passed over).
NewRuntime(file, workspace, manager) ==
    LET context == ContextWith(workspace, manager) IN
    IF context.raised # None THEN context
    ELSE [raised |-> None,
          history |-> IF ~loadable(file) THEN context.history
                      ELSE load_history(context.history, json_load(file))]

\* get_or_create_runtime, step 2: server.py builds a SkillsManager over the
\* skills directory, loads it and hands it to the AgentRuntime it builds; the
\* directory held no skill, or one.
ServerManagers == { SkillsManager(<< >>), SkillsManager(<< "pdf" >>) }

-----------------------------------------------------------------------------
(* SpecCtx: the mutators of one ContextManager, in any order                *)

\* The files load_history may be given besides the autosave file: an empty
\* array, a saved session, and an array that does not start with a system
\* message.
LoadableFiles ==
    { json_dump(<< >>), json_dump(SavedSession), json_dump(<< UserMsg("saved question") >>) }

\* The autosave path of a context is relative ("sessions/..._session_....json"):
\* open resolves it in the working directory of the process at the time of
\* the call. The file a relative path names in the directory `dir`.
open_at(dir, path) == << dir, path >>

\* The directory "sessions" exists where the process was started (server.py
\* makes it at import); below another directory it may exist or not.
InitCtx ==
    /\ history = [r \in {CliTask} |-> ContextInit]
    /\ env = [r \in {CliTask} |-> "web"]
    /\ autosave = [r \in {CliTask} |-> "1:s1"]
    /\ created = {CliTask}
    /\ \E elsewhere \in {Missing, NoDir} :
          files = [f \in WorkDirs \X SessionKeys |-> IF f[1] = Cwd THEN Missing ELSE elsewhere]
    /\ session_runtimes = [k \in SessionKeys |-> NoRuntime]
    /\ rt = [t \in {CliTask} |-> CliTask]
    /\ TaskInit({CliTask}, "idle")
    /\ WebIdle
    /\ PathIdle
    /\ AuxIdle

CtxFrame ==
    UNCHANGED << rtVars, regVars, taskVars, nextId, turns, webVars, pathVars,
                 mcpVars, execVars, streamVars, todoVars, jsonVars, skillVars, cwd >>

\* What the operating system does to a save: open and json.dump go through,
\* open raises, or open truncates the file and the write raises.
SaveOutcomes == {"saved", "open fails", "write fails"}

\* What a mutator does after it has appended: nothing without an autosave
\* path, else save_history(filepath) in the working directory `dir`, where
\* open raises when the directory of the file does not exist.
save_at(fs, dir, path, h, how) ==
    LET file == open_at(dir, path) IN
    IF path = NoFile THEN [raised |-> FALSE, files |-> fs]
    ELSE IF fs[file] = NoDir \/ how = "open fails" THEN [raised |-> TRUE, files |-> fs]
    ELSE IF how = "write fails" THEN [raised |-> TRUE, files |-> [fs EXCEPT ![file] = EmptyFile]]
    ELSE [raised |-> FALSE, files |-> save_history(fs, file, h)]

\* A mutator: the message is appended, then save_history runs on the
\* autosave path; its exception leaves the mutator.
CtxMutate(name, h, how) ==
    LET save == save_at(files, cwd, autosave[CliTask], h, how) IN
    /\ history' = [history EXCEPT ![CliTask] = h]
    /\ files' = save.files
    /\ raised' = IF save.raised THEN name ELSE None
    /\ CtxFrame

CtxAddUser(content, how) ==
    /\ Len(history[CliTask]) < MaxCtxLen
    /\ CtxMutate("add_user_msg", add_user_msg(history[CliTask], content), how)

CtxAddAssistant(content, how) ==
    /\ Len(history[CliTask]) < MaxCtxLen
    /\ CtxMutate("add_assistant_msg",
                 add_assistant_msg(history[CliTask],
                                   Message("assistant", content, None, << >>, NoId)),
                 how)

CtxAddTool(id, content, how) ==
    /\ Len(history[CliTask]) < MaxCtxLen
    /\ CtxMutate("add_tool_output", add_tool_output(history[CliTask], id, content), how)

\* reset does not save.
CtxReset ==
    /\ history' = [history EXCEPT ![CliTask] = reset(history[CliTask], cwd)]
    /\ raised' = None
    /\ UNCHANGED files
    /\ CtxFrame

\* load_history of a file given by the caller, or of the autosave path in
\* the working directory; a file that does not exist makes open raise, a
\* file of 0 bytes makes json.load raise, and the history stays.
CtxLoad(file) ==
    /\ history' = [history EXCEPT ![CliTask] =
                     IF ~loadable(file) THEN history[CliTask]
                     ELSE load_history(history[CliTask], json_load(file))]
    /\ raised' = IF ~loadable(file) THEN "load_history" ELSE None
    /\ UNCHANGED files
    /\ CtxFrame

\* The session file of the context as open finds it now.
AutosaveFile == files[open_at(cwd, autosave[CliTask])]

\* The runtime of the session is built anew by get_or_create_runtime (the
\* registry is empty) with the skills manager `manager`: the exception of
\* the constructor, or a new context in the working directory and the
\* history of the session file when the file exists there.
CtxRecreate(manager) ==
    LET new == NewRuntime(AutosaveFile, cwd, manager) IN
    /\ history' = IF new.raised # None THEN history
                  ELSE [history EXCEPT ![CliTask] = new.history]
    /\ raised' = IF new.raised # None THEN "get_or_create_runtime" ELSE None
    /\ UNCHANGED files
    /\ CtxFrame

\* The working directory of the process changes.
Chdir(d) ==
    /\ d # cwd
    /\ cwd' = d
    /\ UNCHANGED << ctxVars, rtVars, regVars, taskVars, nextId, turns, webVars, pathVars,
                    mcpVars, execVars, streamVars, todoVars, jsonVars, skillVars, raised >>

NextCtx ==
    \/ \E c \in UserInputs, how \in SaveOutcomes : CtxAddUser(c, how)
    \/ \E how \in SaveOutcomes : CtxAddAssistant("text", how)
    \/ \E how \in SaveOutcomes : CtxAddTool(1, "file content", how)
    \/ CtxReset
    \/ \E file \in LoadableFiles \cup {AutosaveFile} : CtxLoad(file)

SpecCtx == InitCtx /\ [][NextCtx]_vars

\* SpecRestart: a context whose saves go through where the directory of the
\* file exists, in a process whose working directory may change and whose
\* runtime may be built anew between the calls.
NextRestart ==
    \/ \E c \in UserInputs : CtxAddUser(c, "saved")
    \/ CtxAddAssistant("text", "saved")
    \/ CtxAddTool(1, "file content", "saved")
    \/ CtxReset
    \/ CtxLoad(AutosaveFile)
    \/ \E manager \in ServerManagers : CtxRecreate(manager)
    \/ \E d \in WorkDirs : Chdir(d)

SpecRestart == InitCtx /\ [][NextRestart]_vars

-----------------------------------------------------------------------------
(* SpecSessions: the HTTP surface of the sessions, one request at a time    *)

\* The authenticated users (auth_models.User.id).
Users == {1, 2}

\* A session id is modelled by the characters of its string. The ids a
\* client sends: a well-formed one and one with a dot.
ClientIds == { << "s", "1" >>, << "a", ".", "b" >> }

\* datetime.now().strftime("%Y%m%d_%H%M%S"): the date, an underscore and the
\* time of day to the second; one string per second of the clock.
Digits == << "0", "1", "2", "3", "4", "5", "6", "7", "8", "9" >>
strftime(sec) == << "0", "_", Digits[sec + 1] >>

SessionIds == ClientIds \cup { strftime(sec) : sec \in 0..MaxClock }
WebKeys == Users \X SessionIds

\* f"{user_id}:{session_id}" and sessions/{user_id}_session_{session_id}.json:
\* both name the pair of user and session id.
runtime_key(user_id, session_id) == << user_id, session_id >>
\* A session path that does not name the user: every user's sessions lie in
\* the files of user 1.
get_session_path_of_any_user(user_id, session_id) == << 1, session_id >>
get_session_path(user_id, session_id) == << user_id, session_id >>

\* The registry and the runtimes, as get_or_create_runtime reads and leaves
\* them.
Registry(runtimes, hist, auto, made) ==
    [runtimes |-> runtimes, history |-> hist, autosave |-> auto, created |-> made,
     raised |-> None]

\* get_or_create_runtime: the cached runtime, or a new one (named by its
\* key) that has loaded the session file if the file exists and is cached
\* before the function returns; when the constructor of the runtime raises,
\* the exception leaves the function before its await of init_mcp_servers
\* and the registry is as it was. A call on a registry that has raised is
\* not made.
get_or_create_runtime(reg, fs, user_id, session_id) ==
    LET k == runtime_key(user_id, session_id)
        path == get_session_path(user_id, session_id)
        new == NewRuntime(fs[path], Cwd, skills_manager)
    IN  IF reg.raised # None \/ reg.runtimes[k] # NoRuntime THEN reg
        ELSE IF new.raised # None THEN [reg EXCEPT !.raised = new.raised]
        ELSE Registry([reg.runtimes EXCEPT ![k] = k],
                      [reg.history EXCEPT ![k] = new.history],
                      [reg.autosave EXCEPT ![k] = path],
                      reg.created \cup {k})

\* Client is the task that iterates the event_generator of a /chat request
\* once chat_endpoint has returned its StreamingResponse; until then it is
\* idle.
Client == "client"
NoKey == << 0, << >> >>
ClientReady == pc[Client] = "idle"

\* No request has been served: user 1 has a saved session "s1" on disk, no
\* runtime exists and no session is active.
InitSessions ==
    /\ history = [k \in WebKeys |-> << >>]
    /\ env = [k \in WebKeys |-> "web"]
    /\ autosave = [k \in WebKeys |-> << >>]
    /\ created = {}
    /\ files = [k \in WebKeys |-> IF k = << 1, << "s", "1" >> >> THEN json_dump(SavedSession) ELSE Missing]
    /\ session_runtimes = [k \in WebKeys |-> NoRuntime]
    /\ rt = [t \in {Client} |-> NoKey]
    /\ TaskInit({Client}, "idle")
    /\ active_sessions = [u \in Users |-> << >>]
    /\ now = 0
    /\ response = NoResponse
    /\ requests = 0
    /\ unchatted = {}
    /\ PathIdle
    /\ \E manager \in ServerManagers : AuxWith(manager)

SessFrame == UNCHANGED << env, rt, taskVars, nextId, turns, pathVars, auxVars >>

\* A request is answered and counted. `ids` are the session ids the body
\* lists, `shows` the session files the body was taken from, `msgs` the
\* "history" of the body.
ServedHistory(route, user, status, id, ids, shows, msgs) ==
    /\ requests < MaxRequests
    /\ requests' = requests + 1
    /\ response' = [route |-> route, user |-> user, status |-> status, id |-> id,
                    ids |-> ids, shows |-> shows, history |-> msgs]

Served(route, user, status, id, ids, shows) ==
    ServedHistory(route, user, status, id, ids, shows, << >>)

\* The registry as a request handler leaves it.
Store(reg) ==
    /\ session_runtimes' = reg.runtimes
    /\ history' = reg.history
    /\ autosave' = reg.autosave
    /\ created' = reg.created

Current == Registry(session_runtimes, history, autosave, created)

\* The wall clock advances by a second.
Tick ==
    /\ now < MaxClock
    /\ now' = now + 1
    /\ UNCHANGED << ctxVars, rtVars, regVars, taskVars, nextId, turns, pathVars, auxVars,
                    active_sessions, response, requests, unchatted >>

\* GET /sessions: the ids of the user's session files.
ListSessions(u) ==
    /\ LET listed == { sid \in SessionIds : files[get_session_path(u, sid)] # Missing }
       IN  Served("list", u, 200, active_sessions[u], listed,
                  { get_session_path(u, sid) : sid \in listed })
    /\ UNCHANGED << ctxVars, rtVars, regVars, active_sessions, now, unchatted >>
    /\ SessFrame

\* An exception left the handler of the route for a request that named the
\* session id: the framework answers 500.
Failed(route, u, id) == Served(route, u, 500, id, {}, {})

\* POST /sessions/new: an id from the clock, the runtime for it, reset, save.
NewSession(u) ==
    LET new_sid == strftime(now)
        k == runtime_key(u, new_sid)
        reg == get_or_create_runtime(Current, files, u, new_sid)
        h == reset(reg.history[k], Cwd)
    IN  IF reg.raised # None
        THEN /\ Failed("new", u, << >>)
             /\ UNCHANGED << ctxVars, rtVars, regVars, active_sessions, now, unchatted >>
             /\ SessFrame
        ELSE /\ Served("new", u, 200, new_sid, {}, {})
             /\ Store([reg EXCEPT !.history[k] = h])
             /\ files' = save_history(files, get_session_path(u, new_sid), h)
             /\ active_sessions' = [active_sessions EXCEPT ![u] = new_sid]
             /\ unchatted' = unchatted \cup {k}
             /\ UNCHANGED now
             /\ SessFrame

\* POST /sessions/{session_id}/load: an error body when the user has no such
\* file; else the runtime for it, made active, and its history.
LoadSession(u, session_id) ==
    LET path == get_session_path(u, session_id)
        k == runtime_key(u, session_id)
        reg == get_or_create_runtime(Current, files, u, session_id)
    IN  IF files[path] = Missing
        THEN /\ Served("load", u, 200, session_id, {}, {})
             /\ UNCHANGED << ctxVars, rtVars, regVars, active_sessions, now, unchatted >>
             /\ SessFrame
        ELSE IF reg.raised # None
        THEN /\ Failed("load", u, session_id)
             /\ UNCHANGED << ctxVars, rtVars, regVars, active_sessions, now, unchatted >>
             /\ SessFrame
        ELSE /\ ServedHistory("load", u, 200, session_id, {}, {path},
                              IF Len(reg.history[k]) > 0 THEN Tail(reg.history[k]) ELSE << >>)
             /\ Store(reg)
             /\ active_sessions' = [active_sessions EXCEPT ![u] = session_id]
             /\ UNCHANGED << files, now, unchatted >>
             /\ SessFrame

\* POST /chat up to the StreamingResponse it returns: the session id of the
\* request, of active_sessions or of the clock, and the runtime for it.
Chat(u, session_id) ==
    LET given == IF session_id # << >> THEN session_id ELSE active_sessions[u]
        sid == IF given # << >> THEN given ELSE strftime(now)
        active == IF given # << >> THEN active_sessions
                  ELSE [active_sessions EXCEPT ![u] = sid]
        k == runtime_key(u, sid)
        reg == get_or_create_runtime(Current, files, u, sid)
    IN  IF reg.raised # None
        THEN /\ Failed("chat", u, sid)
             /\ active_sessions' = active
             /\ UNCHANGED << ctxVars, rtVars, regVars, now, unchatted >>
             /\ SessFrame
        ELSE /\ Served("chat", u, 200, sid, {}, {})
             /\ Store(reg)
             /\ active_sessions' = active
             /\ unchatted' = unchatted \ {k}
             /\ rt' = [rt EXCEPT ![Client] = k]
             /\ pc' = [pc EXCEPT ![Client] = "ready"]
             /\ UNCHANGED << files, env, now, current_step, stream,
                             tool_calls, pending, events, model_calls, dispatched, outcome,
                             nextId, turns, pathVars, auxVars >>

\* DELETE /sessions/{session_id}: the application has no such route; the
\* framework answers 404 and nothing is touched.
DeleteSession(u, session_id) ==
    /\ Served("delete", u, 404, session_id, {}, {})
    /\ UNCHANGED << ctxVars, rtVars, regVars, active_sessions, now, unchatted >>
    /\ SessFrame

NextSessions ==
    \/ Tick
    \/ ClientReady /\ \E u \in Users : ListSessions(u)
    \/ ClientReady /\ \E u \in Users : NewSession(u)
    \/ ClientReady /\ \E u \in Users, sid \in SessionIds : LoadSession(u, sid)
    \/ ClientReady /\ \E u \in Users, sid \in ClientIds \cup { << >> } : Chat(u, sid)
    \/ ClientReady /\ \E u \in Users, sid \in SessionIds : DeleteSession(u, sid)

SpecSessions == InitSessions /\ [][NextSessions]_vars

-----------------------------------------------------------------------------
(* SpecPaths: one call of the path guard or of a file tool                  *)

VALIDATE_PATH == "validate_path"

\* The path strings of at most n components.
InputPaths(n) ==
    { InputPath(abs, parts) :
        abs \in BOOLEAN, parts \in UNION { [1..k -> PathNames] : k \in 0..n } }

\* The calls: the guard or a file tool, a path, a workspace root and what
\* the tool is passed besides.
PathCalls ==
    { [tool |-> tool, path |-> path, root |-> root, arg |-> arg] :
        tool \in {VALIDATE_PATH} \cup PathTools, path \in InputPaths(MaxPathLen),
        root \in WorkspaceRoots, arg \in {Flat, Recursive, Replace, Create, Plain} }

InitPaths ==
    /\ history = [r \in {CliTask} |-> ContextInit]
    /\ env = [r \in {CliTask} |-> "web"]
    /\ autosave = [r \in {CliTask} |-> NoFile]
    /\ created = {CliTask}
    /\ files = [k \in SessionKeys |-> Missing]
    /\ session_runtimes = [k \in SessionKeys |-> NoRuntime]
    /\ rt = [t \in {CliTask} |-> CliTask]
    /\ TaskInit({CliTask}, "idle")
    /\ WebIdle
    /\ path_call \in { call \in PathCalls : call.arg \in ToolArgs(call.tool) }
    /\ path_result = NoResult
    /\ AuxIdle

PathFrame == UNCHANGED << ctxVars, rtVars, regVars, taskVars, nextId, turns, webVars, auxVars, path_call >>

\* validate_path(path, root) is called.
CallGuard ==
    LET g == validate_path(path_call.path, path_call.root) IN
    /\ path_call.tool = VALIDATE_PATH
    /\ ~path_result.done
    /\ path_result' = [NoResult EXCEPT !.done = TRUE, !.raised = g.raised, !.value = g.value]
    /\ PathFrame

\* A file tool is called with the path; the tool returns, whatever happens.
CallTool ==
    LET r == path_tool(path_call.tool, path_call.path, path_call.root, path_call.arg) IN
    /\ path_call.tool \in PathTools
    /\ ~path_result.done
    /\ path_result' = [NoResult EXCEPT !.done = TRUE, !.success = r.success,
                                        !.output = r.output, !.touched = r.touched]
    /\ PathFrame

NextPaths == CallGuard \/ CallTool

SpecPaths == InitPaths /\ [][NextPaths]_vars

-----------------------------------------------------------------------------
(* SpecMcp: one McpClient, its callers and its server                      *)

\* One runtime at rest: nothing but the component under study moves.
RestAt(start) ==
    /\ history = [r \in {CliTask} |-> ContextInit]
    /\ env = [r \in {CliTask} |-> "web"]
    /\ autosave = [r \in {CliTask} |-> NoFile]
    /\ created = {CliTask}
    /\ files = [k \in SessionKeys |-> Missing]
    /\ session_runtimes = [k \in SessionKeys |-> NoRuntime]
    /\ rt = [t \in {CliTask} |-> CliTask]
    /\ TaskInit({CliTask}, start)
    /\ WebIdle
    /\ PathIdle

AtRest == RestAt("idle")

RestFrame ==
    UNCHANGED << ctxVars, rtVars, regVars, rt, taskVars, nextId, turns, webVars, pathVars >>

McpIds == 1..MaxMcpRequests

\* What the server may send: responses with the id of a request, of no
\* request, and messages without id.
McpMessages ==
    { McpMessage(id, error, body) :
        id \in 0..(MaxMcpRequests + 1), error \in BOOLEAN, body \in McpBodies }

InitMcp ==
    /\ AtRest
    /\ cwd = Cwd
    /\ raised = None
    /\ mcp = create_receive_task(McpInit(McpIds))
    /\ executor = ExecutorInit
    /\ chunks = << >>
    /\ full_message = NotParsed
    /\ interpreter = NewInterpreter
    /\ todo_state = NoTodos
    /\ messages_to_send = << >>
    /\ sse = SseInit
    /\ json_text = << >>
    /\ json_result = NotCalled
    /\ skills_manager = NoSkillsManager

McpFrame == RestFrame /\ UNCHANGED << procVars, execVars, streamVars, todoVars, jsonVars, skillVars, sse >>

\* A caller enters request.
McpRequest ==
    /\ Len(mcp.calls) < MaxMcpRequests
    /\ mcp' = request(mcp)
    /\ McpFrame

\* transport.send of call n returns or raises.
McpSend(n, ok) ==
    /\ n \in DOMAIN mcp.calls
    /\ mcp.calls[n].state = "sending"
    /\ mcp' = sent(mcp, n, ok)
    /\ McpFrame

\* The receive loop hands a message to _handle_message.
McpDeliver(message) ==
    /\ mcp.receive_task = "running"
    /\ mcp' = handle_message(mcp, message)
    /\ McpFrame

\* The event loop runs the caller of call n, whose future was completed
\* while it waited.
McpResume(n) ==
    /\ n \in DOMAIN mcp.calls
    /\ mcp.calls[n].state = "waiting"
    /\ mcp.calls[n].completions > 0
    /\ mcp' = resumed(mcp, n)
    /\ McpFrame

NextMcp ==
    \/ McpRequest
    \/ \E n \in McpIds, ok \in BOOLEAN : McpSend(n, ok)
    \/ \E message \in McpMessages : McpDeliver(message)
    \/ \E n \in McpIds : McpResume(n)

SpecMcp == InitMcp /\ [][NextMcp]_vars

-----------------------------------------------------------------------------
(* SpecMcpLoop: the client, the messages of a server that also calls the   *)
(* client, and the end of the receive loop                                 *)

\* What the server may send: responses, its own requests and notifications.
LoopMessages ==
    { McpMessage(id, error, "r1") : id \in 0..(MaxMcpRequests + 1), error \in BOOLEAN }
    \cup { McpServerCall(id) : id \in 0..(MaxMcpRequests + 1) }

\* A caller enters request while the client is connected.
LoopRequest ==
    /\ mcp.receive_task = "running"
    /\ McpRequest

LoopDeliver(message) ==
    /\ message \in LoopMessages
    /\ McpDeliver(message)

\* transport.receive() ends or raises, and _receive_loop returns.
ReceiveLoopEnds ==
    /\ mcp.receive_task = "running"
    /\ mcp' = receive_loop_ends(mcp)
    /\ McpFrame

\* close() is called on a client that has not been closed and that no
\* other call of close is closing.
McpClose ==
    /\ ~mcp.closed
    /\ mcp.receive_task \notin {"cancelling", "cancelled"}
    /\ mcp' = close(mcp)
    /\ McpFrame

\* The event loop runs the receive task after cancel(): CancelledError is
\* thrown into `async for message in self.transport.receive()`, which
\* `except Exception` does not catch, and the task ends cancelled.
ReceiveTaskCancelled ==
    /\ mcp.receive_task = "cancelling"
    /\ mcp' = [mcp EXCEPT !.receive_task = "cancelled"]
    /\ McpFrame

\* close, which awaited the receive task, runs again in a later callback of
\* the loop: CancelledError is caught and the transport is closed.
McpCloseResumes ==
    /\ mcp.receive_task = "cancelled"
    /\ ~mcp.closed
    /\ mcp' = [mcp EXCEPT !.closed = TRUE]
    /\ McpFrame

NextMcpLoop ==
    \/ LoopRequest
    \/ \E n \in McpIds, ok \in BOOLEAN : McpSend(n, ok)
    \/ \E message \in LoopMessages : LoopDeliver(message)
    \/ \E n \in McpIds : McpResume(n)
    \/ ReceiveLoopEnds
    \/ McpClose
    \/ ReceiveTaskCancelled
    \/ McpCloseResumes

SpecMcpLoop == InitMcp /\ [][NextMcpLoop]_vars

-----------------------------------------------------------------------------
(* SpecSse: an McpClient on an SseTransport connects to its server         *)

InitSse ==
    /\ AtRest
    /\ cwd = Cwd
    /\ raised = None
    /\ mcp = McpInit(McpIds)
    /\ executor = ExecutorInit
    /\ chunks = << >>
    /\ full_message = NotParsed
    /\ interpreter = NewInterpreter
    /\ todo_state = NoTodos
    /\ messages_to_send = << >>
    /\ sse = SseInit
    /\ json_text = << >>
    /\ json_result = NotCalled
    /\ skills_manager = NoSkillsManager

SseFrame == RestFrame /\ UNCHANGED << procVars, execVars, streamVars, todoVars, jsonVars, skillVars >>

\* init_mcp_servers calls client.connect().
SseConnect ==
    /\ sse.connect = "idle"
    /\ mcp' = connect(mcp, sse).client
    /\ sse' = connect(mcp, sse).transport
    /\ SseFrame

\* The receive task runs for the first time: receive() opens the stream.
SseOpen ==
    /\ mcp.receive_task = "running"
    /\ sse.client
    /\ ~sse.opened
    /\ sse' = [sse EXCEPT !.opened = TRUE]
    /\ UNCHANGED mcp
    /\ SseFrame

\* The server writes an event to the open stream.
ServerSends(ev) ==
    /\ sse.opened
    /\ sse.served < MaxSseEvents
    /\ sse' = [sse EXCEPT !.wire = Append(@, ev), !.served = @ + 1]
    /\ UNCHANGED mcp
    /\ SseFrame

\* The receive loop reads the next event of the stream.
SseReceive ==
    /\ sse.opened
    /\ sse.wire # << >>
    /\ LET ev == Head(sse.wire) IN
       /\ sse' = [sse_on_event(sse, ev) EXCEPT !.wire = Tail(sse.wire)]
       /\ mcp' = IF sse_yields(ev) THEN handle_message(mcp, ev.message) ELSE mcp
    /\ SseFrame

NextSse ==
    \/ SseConnect
    \/ SseOpen
    \/ \E ev \in SseEvents : ServerSends(ev)
    \/ SseReceive

SpecSse == InitSse /\ [][NextSse]_vars

-----------------------------------------------------------------------------
(* SpecExecutor: registrations at one ToolExecutor                          *)

InitExecutor ==
    /\ AtRest
    /\ AuxIdle

ExecutorFrame == RestFrame /\ UNCHANGED << procVars, mcpVars, streamVars, todoVars, jsonVars, skillVars >>

Register(func) ==
    /\ Len(executor.schemas) < MaxSchemas
    /\ executor' = register(executor, func)
    /\ ExecutorFrame

RegisterMcpTool(tool) ==
    /\ Len(executor.schemas) < MaxSchemas
    /\ executor' = register_mcp_tool(executor, tool)
    /\ ExecutorFrame

NextExecutor ==
    \/ \E func \in Funcs : Register(func)
    \/ \E tool \in McpTools : RegisterMcpTool(tool)

SpecExecutor == InitExecutor /\ [][NextExecutor]_vars

-----------------------------------------------------------------------------
(* SpecChunks: parse_stream on one stream of chunks                         *)

\* The transport has returned the stream of a model call of step, and
\* parse_stream waits for its first chunk.
InitChunks ==
    /\ RestAt("stream")
    /\ cwd = Cwd
    /\ raised = None
    /\ mcp = McpInit({})
    /\ executor = ExecutorInit
    /\ chunks \in ChunkSeqs(MaxChunks)
    /\ full_message = NotParsed
    /\ interpreter = NewInterpreter
    /\ todo_state = NoTodos
    /\ messages_to_send = << >>
    /\ sse = SseInit
    /\ json_text = << >>
    /\ json_result = NotCalled
    /\ skills_manager = NoSkillsManager

ChunksFrame ==
    UNCHANGED << files, rtVars, regVars, rt, stream, outcome, nextId, turns,
                 model_calls, webVars, pathVars, chunks, procVars, mcpVars, execVars, todoVars,
                 jsonVars, skillVars >>

\* The next chunk arrives, or parse_stream runs on from the yield of a
\* delta: the chunk is handled up to the next yield, which step passes on, or
\* to its end.
ReadChunk ==
    LET handled == handle_chunk(interpreter, chunks[interpreter.read + 1]) IN
    /\ pc[CliTask] = "stream"
    /\ interpreter.read < Len(chunks)
    /\ interpreter' = handled.interpreter
    /\ events' = [events EXCEPT ![CliTask] = @ \o handled.yielded]
    /\ UNCHANGED << history, pc, current_step, full_message, tool_calls, pending,
                    dispatched >>
    /\ ChunksFrame

\* The stream has ended: parse_stream yields the full_message, which step
\* keeps; an empty message ends the turn, any other is appended; without
\* tool calls the turn is finished, with tool calls the first is announced.
ParseChunks ==
    LET full == full_message_from(interpreter.acc)
        calls == full.tool_calls.value
        empty == full.content.none /\ full.tool_calls.none /\ full.reasoning_content.none
    IN
    /\ pc[CliTask] = "stream"
    /\ interpreter.read = Len(chunks)
    /\ full_message' = full
    /\ history' = [history EXCEPT ![CliTask] =
                     IF empty THEN @ ELSE add_assistant_msg(@, chunk_msg_to_save(full))]
    /\ tool_calls' = [tool_calls EXCEPT ![CliTask] = calls]
    /\ pending' = [pending EXCEPT ![CliTask] = calls]
    /\ events' = [events EXCEPT ![CliTask] =
                    IF calls # << >> THEN Append(@, ChunkEvent("tool_call", calls[1].id, calls[1]))
                    ELSE Append(@, ChunkEvent("finished", << >>, << "Done" >>))]
    /\ pc' = [pc EXCEPT ![CliTask] = IF calls # << >> THEN "tool_call" ELSE "last"]
    /\ UNCHANGED << current_step, dispatched, interpreter >>
    /\ ChunksFrame

\* From the yield of tool_call to the yield of tool_output: the call is
\* executed, its output appended and announced.
ChunkTool ==
    LET tc == Head(pending[CliTask])
        output_str == chunk_tool_output(tc)
    IN
    /\ pc[CliTask] = "tool_call"
    /\ history' = [history EXCEPT ![CliTask] = Append(@, ChunkToolMsg(tc.id, output_str))]
    /\ events' = [events EXCEPT ![CliTask] = Append(@, ChunkEvent("tool_output", tc.id, output_str))]
    /\ dispatched' = [dispatched EXCEPT ![CliTask] = @ + 1]
    /\ pc' = [pc EXCEPT ![CliTask] = "tool_output"]
    /\ UNCHANGED << current_step, full_message, interpreter, tool_calls, pending >>
    /\ ChunksFrame

\* From the yield of tool_output on: the next call of the reply is
\* announced, or (after the last call) current_step grows, the loop guard
\* is read again and the next request is sent.
ChunkAfterTool ==
    LET rest == Tail(pending[CliTask]) IN
    /\ pc[CliTask] = "tool_output"
    /\ pending' = [pending EXCEPT ![CliTask] = rest]
    /\ IF rest # << >>
       THEN /\ events' = [events EXCEPT ![CliTask] =
                            Append(@, ChunkEvent("tool_call", rest[1].id, rest[1]))]
            /\ pc' = [pc EXCEPT ![CliTask] = "tool_call"]
            /\ UNCHANGED current_step
       ELSE /\ current_step' = [current_step EXCEPT ![CliTask] = @ + 1]
            /\ pc' = [pc EXCEPT ![CliTask] =
                        IF loop_guard(current_step[CliTask] + 1) THEN "call" ELSE "done"]
            /\ UNCHANGED events
    /\ UNCHANGED << history, full_message, interpreter, tool_calls, dispatched >>
    /\ ChunksFrame

\* The generator returns after its finished event.
ChunkStepEnds ==
    /\ pc[CliTask] = "last"
    /\ pc' = [pc EXCEPT ![CliTask] = "done"]
    /\ UNCHANGED << history, current_step, events, full_message, interpreter, tool_calls,
                    pending, dispatched >>
    /\ ChunksFrame

NextChunks ==
    \/ ReadChunk
    \/ ParseChunks
    \/ ChunkTool
    \/ ChunkAfterTool
    \/ ChunkStepEnds

SpecChunks == InitChunks /\ [][NextChunks]_vars

-----------------------------------------------------------------------------
(* SpecTurn: step with the todo list, replies of thoughts alone and the    *)
(* completion tool called with every kind of argument string               *)

\* The system message step builds from todo_state.
system_injection(todos) ==
    SystemMsg("## Current Todo List Status (JSON) " \o json_dumps(todos)
              \o " CRITICAL INSTRUCTION")

\* messages_to_send_without_todos: the history alone is sent.
messages_to_send_without_todos(h, todos) == h

\* What step hands to send_stream_request: a copy of the history, and the
\* todo message after it when todo_state is not empty.
messages_to_send_of(h, todos) ==
    IF todos # NoTodos THEN Append(h, system_injection(todos)) ELSE h

\* The tool calls of the replies of SpecTurn.
TurnShapes ==
    { CallShape(WRITE_TODO, a) : a \in TodoLists \cup {"invalid"} }
    \cup { CallShape(UPDATE_TODO, a) : a \in TodoUpdates \cup {"invalid"} }
    \cup { CallShape(READ_TODO, "valid") }
    \cup { CallShape(ATTEMPT_COMPLETION, a) : a \in ArgStrings }

\* The replies of SpecTurn: those of Replies with one tool call at most, and
\* a reply of thoughts alone.
TurnReplies ==
    Replies(TurnShapes, 1) \cup { StreamReply("thought", None, << >>) }

TurnFrame ==
    UNCHANGED << rt, rtVars, regVars, webVars, pathVars,
                 procVars, mcpVars, execVars, streamVars, jsonVars, skillVars >>

\* The top of the loop body, which a block that ends in the model request
\* has run: the messages are prepared from the history and todo_state as
\* the block leaves them.
TurnSends(t) ==
    messages_to_send' = IF pc'[t] = "call" /\ pc[t] # "call"
                        THEN messages_to_send_of(history'[rt[t]], todo_state)
                        ELSE messages_to_send

TurnInput(t, user_input) ==
    /\ pc[t] \in {"idle", "done"}
    /\ turns < MaxTurns
    /\ StepBegin(t, user_input)
    /\ TurnSends(t)
    /\ UNCHANGED << nextId, todo_state >>
    /\ TurnFrame

TurnReply(t) ==
    /\ \E reply \in TurnReplies : ModelCall(t, reply)
    /\ UNCHANGED todoVars
    /\ TurnFrame

TurnResume(t) ==
    /\ StepResume(t)
    /\ TurnSends(t)
    /\ UNCHANGED todo_state
    /\ TurnFrame

\* The call is executed: a todo tool leaves todo_state as its handler wrote
\* it, also when the handler raised afterwards.
TurnTool(t) ==
    LET tc == Head(pending[t]) IN
    /\ pc[t] = "tool_call"
    /\ \E how \in OutcomesOf(tc) :
          /\ ToolStep(t, how)
          /\ todo_state' = run_tool(tc, env[rt[t]], how, todo_state).todos
    /\ UNCHANGED messages_to_send
    /\ TurnFrame

NextTurn ==
    \/ \E u \in UserInputs : TurnInput(CliTask, u)
    \/ TurnReply(CliTask)
    \/ TurnResume(CliTask)
    \/ TurnTool(CliTask)

SpecTurn == Init /\ [][NextTurn]_vars

-----------------------------------------------------------------------------
(* SpecJson: _robust_json_parse is called on an argument string            *)

\* The documents whose truncations the model may send.
Documents ==
    { << "{", QUOTE, "a", QUOTE, ":", QUOTE, "a", QUOTE, "}" >>,
      << "[", QUOTE, "a", QUOTE, "]" >>,
      << "{", QUOTE, "a", QUOTE, ":", "[", QUOTE, "a", QUOTE, "]", "}" >> }
Prefixes(text) == { SubSeq(text, 1, k) : k \in 0..Len(text) }
Truncations == UNION { Prefixes(d) : d \in Documents }

\* The argument strings: every text of MaxArgLen characters at most, the
\* truncations of the documents, also with a blank after them, and the
\* truncations inside a Markdown fence, with and without its last line.
ArgTexts ==
    UNION { [1..n -> JsonChars] : n \in 0..MaxArgLen }
    \cup Truncations
    \cup { t \o << " " >> : t \in Truncations }
    \cup { << FENCE, "a", NEWLINE >> \o t \o << NEWLINE, FENCE >> : t \in Truncations }
    \cup { << FENCE, NEWLINE >> \o t : t \in Truncations }

InitJson ==
    /\ AtRest
    /\ cwd = Cwd
    /\ raised = None
    /\ mcp = McpInit({})
    /\ executor = ExecutorInit
    /\ chunks = << >>
    /\ full_message = NotParsed
    /\ interpreter = NewInterpreter
    /\ todo_state = NoTodos
    /\ messages_to_send = << >>
    /\ sse = SseInit
    /\ json_text \in ArgTexts
    /\ json_result = NotCalled
    /\ skills_manager = NoSkillsManager

\* step calls self._robust_json_parse(args_str).
ParseArgs ==
    /\ ~json_result.done
    /\ json_result' = robust_json_parse_text(json_text)
    /\ UNCHANGED json_text
    /\ RestFrame
    /\ UNCHANGED << procVars, mcpVars, execVars, streamVars, todoVars, skillVars >>

NextJson == ParseArgs

SpecJson == InitJson /\ [][NextJson]_vars

-----------------------------------------------------------------------------
(* SpecSkills: main builds the skills manager and then the runtime         *)

\* The skills a skills directory may hold.
SkillNames == {"pdf", "docx", "sql"}
Catalogues == UNION { [1..n -> SkillNames] : n \in 0..MaxSkills }

\* main has loaded the skills, or runs without a manager; no runtime has
\* been built.
InitSkills ==
    /\ history = [r \in {CliTask} |-> << >>]
    /\ env = [r \in {CliTask} |-> "cli"]
    /\ autosave = [r \in {CliTask} |-> NoFile]
    /\ created = {}
    /\ files = [k \in SessionKeys |-> Missing]
    /\ session_runtimes = [k \in SessionKeys |-> NoRuntime]
    /\ rt = [t \in {CliTask} |-> CliTask]
    /\ TaskInit({CliTask}, "idle")
    /\ WebIdle
    /\ PathIdle
    /\ cwd = Cwd
    /\ raised = None
    /\ mcp = McpInit({})
    /\ executor = ExecutorInit
    /\ chunks = << >>
    /\ full_message = NotParsed
    /\ interpreter = NewInterpreter
    /\ todo_state = NoTodos
    /\ messages_to_send = << >>
    /\ sse = SseInit
    /\ json_text = << >>
    /\ json_result = NotCalled
    /\ skills_manager \in {NoSkillsManager} \cup { SkillsManager(c) : c \in Catalogues }

\* AgentRuntime(...) builds its ContextManager.
CreateContext ==
    LET new == ContextWith(cwd, skills_manager) IN
    /\ created = {}
    /\ raised = None
    /\ raised' = new.raised
    /\ IF new.raised = None
       THEN /\ history' = [history EXCEPT ![CliTask] = new.history]
            /\ created' = {CliTask}
       ELSE UNCHANGED << history, created >>
    /\ UNCHANGED << files, env, autosave, regVars, taskVars, nextId, turns, webVars,
                    pathVars, mcpVars, execVars, streamVars, todoVars, jsonVars,
                    skillVars, cwd >>

\* The runtime that was built is used.
SkillsUse ==
    /\ created # {}
    /\ \/ \E c \in UserInputs : CtxAddUser(c, "saved")
       \/ CtxAddAssistant("text", "saved")
       \/ CtxReset

NextSkills ==
    \/ CreateContext
    \/ \E d \in WorkDirs : Chdir(d)
    \/ SkillsUse

SpecSkills == InitSkills /\ [][NextSkills]_vars

-----------------------------------------------------------------------------
(* Properties of step (Spec, SpecTools)                                    *)

Last(seq) == seq[Len(seq)]
Idle(t) == pc[t] \in {"idle", "done"}
IsToolMsg(m) == m.role = "tool"
HasCalls(m) == m.role = "assistant" /\ m.tool_calls # << >>

\* The N calls of the assistant message at i are answered by the N messages
\* that follow it, in order, and no further tool message follows those.
Answered(h, i) ==
    LET n == Len(h[i].tool_calls) IN
    /\ i + n <= Len(h)
    /\ \A j \in 1..n : /\ IsToolMsg(h[i + j])
                       /\ h[i + j].tool_call_id = h[i].tool_calls[j].id
    /\ i + n + 1 <= Len(h) => ~IsToolMsg(h[i + n + 1])

\* C3: once a step has ended, every assistant message of the history that
\* carries N tool calls is directly followed by exactly N tool messages that
\* carry the ids of those calls, in the order of the calls.
C3_ToolCallsAnswered ==
    \A t \in DOMAIN pc :
        Idle(t) => \A i \in 1..Len(history[rt[t]]) :
                      HasCalls(history[rt[t]][i]) => Answered(history[rt[t]], i)

\* The (message, call) places of the history before index i that hold id.
CallsWithId(h, i, id) ==
    { << j, k >> \in (1..(i - 1)) \X (1..MaxIds) :
        /\ h[j].role = "assistant"
        /\ k <= Len(h[j].tool_calls)
        /\ h[j].tool_calls[k].id = id }

\* C4: (the model's tool-call ids being distinct and non-empty) every tool
\* message of the history carries the id of exactly one tool call of an
\* earlier assistant message, and no two tool messages carry the same id.
C4_ToolIdsMatch ==
    \A r \in created :
        LET h == history[r] IN
        /\ \A i \in 1..Len(h) :
              IsToolMsg(h[i]) => Cardinality(CallsWithId(h, i, h[i].tool_call_id)) = 1
        /\ \A i, j \in 1..Len(h) :
              (IsToolMsg(h[i]) /\ IsToolMsg(h[j]) /\ i # j)
                  => h[i].tool_call_id # h[j].tool_call_id

\* C4 witness: two replies with tool calls, three tool messages in all.
C4_Witness ==
    LET h == history[CliTask] IN
    /\ Cardinality({ i \in 1..Len(h) : HasCalls(h[i]) }) >= 2
    /\ Cardinality({ i \in 1..Len(h) : IsToolMsg(h[i]) }) >= 3

\* C6: a step issues at most max_steps model calls, and once max_steps
\* replies have had their tool calls executed the step has ended: no model
\* call and no tool call is left to it.
C6_StepBudget ==
    \A t \in DOMAIN pc :
        /\ model_calls[t] <= max_steps
        /\ current_step[t] <= max_steps
        /\ current_step[t] = max_steps => (pc[t] = "done" /\ pending[t] = << >>)

\* C6 witness: a step that has used its whole budget.
C6_Witness ==
    /\ current_step[CliTask] = max_steps
    /\ model_calls[CliTask] = max_steps
    /\ dispatched[CliTask] >= max_steps

\* C7: a step that has exhausted its budget has yielded an error event as
\* its last event.
C7_BudgetEndsWithError ==
    \A t \in DOMAIN pc :
        (pc[t] = "done" /\ current_step[t] >= max_steps)
            => (events[t] # << >> /\ Last(events[t]).type = "error")

\* C8: no event of a turn follows a finished, interrupt or error event.
C8_TerminalEventIsLast ==
    \A t \in DOMAIN pc :
        \A i \in 1..Len(events[t]) :
            events[t][i].type \in TerminalTypes => i = Len(events[t])

\* A call fails in parsing, in lookup, in validation or in its handler.
Fails(tc, how) ==
    \/ tc.args \in {"unparseable", "too deep"}
    \/ tc.name \notin execution_map
    \/ ~validates(tc.name, tc.args)
    \/ how = "raise"

\* The step of task t executes the call it has announced, a call that fails
\* and is not a call of the completion tool.
ExecutesFailing(t) ==
    /\ pc[t] \in {"tool_call", "in_tool"}
    /\ dispatched'[t] = dispatched[t] + 1
    /\ Head(pending[t]).name # ATTEMPT_COMPLETION
    /\ Fails(Head(pending[t]), outcome'[t])

\* The step of task t runs on from the tool_output of such a call.
LeavesFailing(t) ==
    /\ pc[t] = "tool_output"
    /\ pc'[t] # "tool_output"
    /\ Head(pending[t]).name # ATTEMPT_COMPLETION
    /\ Fails(Head(pending[t]), outcome[t])

\* C9: when a call other than the completion tool fails (its arguments do
\* not parse, its name is not registered, its arguments fail validation or
\* its handler raises), the step, which has announced the call, appends
\* exactly one tool message with the call's id and an error text and yields
\* tool_output; it then yields no terminal event and goes on: to the
\* tool_call of the next call of the reply, or (budget left) to the next
\* model call.
C9_FailureStaysInBand ==
    /\ [][\A t \in DOMAIN pc :
            ExecutesFailing(t)
            => LET tc == Head(pending[t])
                   h == history[rt[t]]
                   hn == history'[rt[t]]
               IN  /\ Last(events[t]) = Ev("tool_call", tc.id)
                   /\ Len(hn) = Len(h) + 1
                   /\ SubSeq(hn, 1, Len(h)) = h
                   /\ IsToolMsg(Last(hn))
                   /\ Last(hn).tool_call_id = tc.id
                   /\ Last(hn).content \in ErrorOutputs
                   /\ events'[t] = Append(events[t], Ev("tool_output", tc.id))
                   /\ pc'[t] = "tool_output"
                   /\ pending'[t] = pending[t]]_vars
    /\ [][\A t \in DOMAIN pc :
            LeavesFailing(t)
            => /\ history' = history
               /\ pending'[t] = Tail(pending[t])
               /\ pending'[t] # << >>
                    => /\ pc'[t] = "tool_call"
                       /\ events'[t] = Append(events[t], Ev("tool_call", pending'[t][1].id))
               /\ pending'[t] = << >>
                    => /\ events'[t] = events[t]
                       /\ current_step'[t] < max_steps => pc'[t] = "call"]_vars

\* C9 witness: the arguments of the first call of a reply made json.loads
\* raise RecursionError and the handler of its second call, the browser
\* tool, raised after step had awaited it; their error texts are the last
\* two messages of the history and the next model call is due.
C9_Witness ==
    LET h == history[CliTask] IN
    /\ pc[CliTask] = "call"
    /\ outcome[CliTask] = "raise"
    /\ Len(h) >= 3
    /\ HasCalls(h[Len(h) - 2])
    /\ h[Len(h) - 2].tool_calls[2].name = BROWSER_ACTION
    /\ IsToolMsg(h[Len(h) - 1])
    /\ h[Len(h) - 1].content = "Error: maximum recursion depth exceeded"
    /\ IsToolMsg(Last(h))
    /\ Last(h).content = "Error executing"

\* The last model call of the step of task t got no stream.
NoStreamAt(t) == model_calls[t] > 0 /\ ~stream[t].open

\* C10: a model call for which the transport returns no stream yields an
\* error event; from then on the step leaves the history (and the session
\* file) as it was, makes no model call and runs no tool, and it ends with
\* an error event as its last event; the caller can then start the next
\* step.
C10_NoStreamEndsTurn ==
    /\ [][\A t \in DOMAIN pc :
            (model_calls'[t] = model_calls[t] + 1 /\ ~stream'[t].open)
            => /\ history' = history
               /\ files' = files
               /\ pc'[t] = "stream"
               /\ Last(events'[t]).type = "error"
       ]_vars
    /\ [][\A t \in DOMAIN pc :
            (NoStreamAt(t) /\ pc[t] \in {"stream", "last"} /\ pc'[t] # pc[t])
            => /\ history' = history
               /\ files' = files
               /\ model_calls' = model_calls
               /\ dispatched' = dispatched
               /\ pc'[t] = IF pc[t] = "stream" THEN "last" ELSE "done"
               /\ Last(events'[t]).type = "error"
       ]_vars
    /\ [](\A t \in DOMAIN pc :
            (pc[t] = "done" /\ NoStreamAt(t) /\ turns < MaxTurns)
                => ENABLED (\E u \in UserInputs : NextInput(t, u)))

\* C10 witness: the first step got no stream and left the history at the
\* user message; the second step on the same runtime ran to finished.
C10_Witness ==
    /\ Len(history[CliTask]) = 4
    /\ history[CliTask][2].role = "user"
    /\ history[CliTask][3].role = "user"
    /\ history[CliTask][4].role = "assistant"
    /\ pc[CliTask] = "done"
    /\ Last(events[CliTask]).type = "finished"

\* C11: a tool call that the stream gave no id is never executed: step
\* announces no tool_call for it, appends no tool message for it, and the
\* turn of a reply that holds such a call has ended with an error event.
C11_MissingIdFailsTurn ==
    \A t \in DOMAIN pc :
        /\ \A i \in 1..Len(events[t]) : events[t][i].id # EmptyId
        /\ \A i \in 1..Len(history[rt[t]]) :
              IsToolMsg(history[rt[t]][i]) => history[rt[t]][i].tool_call_id # EmptyId
        /\ (\E i \in 1..Len(history[rt[t]]) :
               /\ HasCalls(history[rt[t]][i])
               /\ \E k \in 1..Len(history[rt[t]][i].tool_calls) :
                     history[rt[t]][i].tool_calls[k].id = EmptyId)
           => (pc[t] = "done" /\ Last(events[t]).type = "error")

\* The step of task t executes the call it has announced, a call of `name`.
Runs(t, name) ==
    /\ pc[t] = "tool_call"
    /\ dispatched'[t] = dispatched[t] + 1
    /\ Head(pending[t]).name = name

\* The step of task t runs on from the tool_output of a call of `name`.
Ran(t, name) ==
    /\ pc[t] = "tool_output"
    /\ pc'[t] # "tool_output"
    /\ Head(pending[t]).name = name

\* The step of task t, which has yielded the tool_call of the call, appends
\* one tool message for it and yields its tool_output.
Outputs(t) ==
    LET tc == Head(pending[t])
        h == history[rt[t]]
        hn == history'[rt[t]]
    IN  /\ Last(events[t]) = Ev("tool_call", tc.id)
        /\ Len(hn) = Len(h) + 1
        /\ SubSeq(hn, 1, Len(h)) = h
        /\ IsToolMsg(Last(hn))
        /\ Last(hn).tool_call_id = tc.id
        /\ events'[t] = Append(events[t], Ev("tool_output", tc.id))
        /\ pc'[t] = "tool_output"

\* The step of task t, which has yielded the tool_output of the call, yields
\* one event of type `last` with `content` and runs no further call of the
\* reply: what is left to it is to return.
EndsWith(t, last, content) ==
    LET tc == Head(pending[t]) IN
    /\ Last(events[t]) = Ev("tool_output", tc.id)
    /\ events'[t] = Append(events[t], EvWith(last, tc.id, content))
    /\ history' = history
    /\ pc'[t] = "last"
    /\ pending'[t] = << >>

\* After an event of type `last` the step makes no model call, runs no tool
\* and yields no event; the next thing the task does is a new step.
NothingAfter(t, last) ==
    (events[t] # << >> /\ Last(events[t]).type = last /\ turns' = turns)
        => /\ model_calls'[t] = model_calls[t]
           /\ dispatched'[t] = dispatched[t]
           /\ events'[t] = events[t]
           /\ history'[rt[t]] = history[rt[t]]

\* C12: when the result of a tool call carries the action "ask_user" (the
\* question tool in the web environment), the step appends the tool
\* message, yields tool_call, tool_output and then an interrupt event with
\* that data, and stops: the later calls of the reply are not run and the
\* step makes no further model call.
C12_AskUserInterrupts ==
    /\ [][\A t \in DOMAIN pc :
            (Runs(t, ASK_FOLLOWUP) /\ env[rt[t]] = "web")
                => (Outputs(t)
                    /\ Last(history'[rt[t]]).content = "[WAITING FOR USER INPUT]")]_vars
    /\ [][\A t \in DOMAIN pc :
            (Ran(t, ASK_FOLLOWUP) /\ env[rt[t]] = "web")
                => EndsWith(t, "interrupt", "ask_user")]_vars
    /\ [][\A t \in DOMAIN pc : NothingAfter(t, "interrupt")]_vars

\* C12 witness: the first of two calls of a reply was the question tool; the
\* step ended with the interrupt and one tool message.
C12_Witness ==
    LET h == history[CliTask] IN
    /\ pc[CliTask] = "done"
    /\ Last(events[CliTask]).type = "interrupt"
    /\ dispatched[CliTask] = 1
    /\ Len(h) >= 2
    /\ HasCalls(h[Len(h) - 1])
    /\ Len(h[Len(h) - 1].tool_calls) = 2
    /\ IsToolMsg(Last(h))

\* C13: when the step runs a call of attempt_completion it appends the tool
\* message, yields tool_call, tool_output and then finished with the tool's
\* output, and ends the turn: the later calls of the reply are not run and
\* the step makes no further model call.
C13_CompletionFinishes ==
    /\ [][\A t \in DOMAIN pc :
            Runs(t, ATTEMPT_COMPLETION)
                => (Outputs(t)
                    /\ Last(history'[rt[t]]).content = "TASK COMPLETED")]_vars
    /\ [][\A t \in DOMAIN pc :
            Ran(t, ATTEMPT_COMPLETION)
                => EndsWith(t, "finished", Last(history[rt[t]]).content)]_vars
    /\ [][\A t \in DOMAIN pc : NothingAfter(t, "finished")]_vars

\* C13 witness: a reply called the ordinary tool and then the completion
\* tool; both ran and the step ended with finished.
C13_Witness ==
    LET h == history[CliTask] IN
    /\ pc[CliTask] = "done"
    /\ Last(events[CliTask]) = EvWith("finished", Last(h).tool_call_id, "TASK COMPLETED")
    /\ dispatched[CliTask] = 2
    /\ Len(h) >= 3
    /\ HasCalls(h[Len(h) - 2])
    /\ h[Len(h) - 2].tool_calls[1].name = READ_FILE
    /\ h[Len(h) - 2].tool_calls[2].name = ATTEMPT_COMPLETION

\* The stream of a reply without tool calls has ended and the step of task t
\* runs on.
EndsReplyWithoutCalls(t) ==
    /\ pc[t] = "stream"
    /\ pc'[t] # "stream"
    /\ stream[t].open
    /\ stream[t].rest = << >>
    /\ stream[t].full.tool_calls = << >>

\* C14: at the end of a reply that carries no tool call step appends
\* exactly one assistant message to the history and yields finished("Done"),
\* after which it returns, whatever content and reasoning the reply has.
C14_NoToolReplyAppendsOne ==
    [][\A t \in DOMAIN pc :
         EndsReplyWithoutCalls(t)
            => LET h == history[rt[t]]
                   hn == history'[rt[t]]
               IN  /\ Len(hn) = Len(h) + 1
                   /\ SubSeq(hn, 1, Len(h)) = h
                   /\ Last(hn).role = "assistant"
                   /\ Last(events'[t]) = EvWith("finished", NoId, "Done")
                   /\ pc'[t] = "last"
    ]_vars

\* The characters of the model's session ids that [A-Za-z0-9_\-] admits.
IdChars == { "s", "a", "b", "_", "-" } \cup { Digits[i] : i \in 1..Len(Digits) }

\* The session id matches ^[A-Za-z0-9_\-]{1,64}$.
MatchesIdPattern(sid) ==
    /\ Len(sid) \in 1..64
    /\ \A i \in 1..Len(sid) : sid[i] \in IdChars

\* A request has just been served on the route.
JustServed(route) == requests' = requests + 1 /\ response'.route = route

\* C15: a request to /sessions/{id}/load, DELETE /sessions/{id} or /chat
\* whose session id does not match ^[A-Za-z0-9_\-]{1,64}$ is answered with
\* status 400, creates no runtime and leaves every file as it was.
C15_BadSessionIdRejected ==
    [][(\E route \in {"load", "delete", "chat"} : JustServed(route))
          /\ ~MatchesIdPattern(response'.id)
       => /\ response'.status = 400
          /\ created' = created
          /\ session_runtimes' = session_runtimes
          /\ files' = files]_vars

C19_DeleteRemovesSession ==
    [][(JustServed("delete")
          /\ files[get_session_path(response'.user, response'.id)] # Missing)
       => LET k == runtime_key(response'.user, response'.id) IN
          /\ response'.status = 200
          /\ files'[get_session_path(response'.user, response'.id)] = Missing
          /\ session_runtimes'[k] = NoRuntime]_vars

\* C20: POST /sessions/new returns an id under which the user has no session
\* yet, so two calls never return the same id and a session created earlier
\* is not reset or overwritten.
C20_NewSessionIdsDiffer ==
    [][JustServed("new")
       => LET path == get_session_path(response'.user, response'.id) IN
          /\ response'.status = 200
          /\ files[path] = Missing
          /\ session_runtimes[runtime_key(response'.user, response'.id)] = NoRuntime
          /\ \A k \in WebKeys : k # path => files'[k] = files[k]]_vars

AsksForRuntime ==
    \/ JustServed("chat")
    \/ JustServed("load")
          /\ files[get_session_path(response'.user, response'.id)] # Missing

\* C2: every call of get_or_create_runtime for a key returns the one runtime
\* of the key: after the call the registry holds a runtime for the key, the
\* one it held before if it held one, and no second runtime has been created
\* for the session.
C2_OneRuntimePerKey ==
    [][AsksForRuntime
       => LET k == runtime_key(response'.user, response'.id) IN
          /\ response'.status = 200
          /\ session_runtimes'[k] # NoRuntime
          /\ session_runtimes[k] # NoRuntime => session_runtimes'[k] = session_runtimes[k]
          /\ Cardinality({ r \in created' : autosave'[r] = get_session_path(k[1], k[2]) }) <= 1
      ]_vars

\* A resolved path in canonical form: no "." and no ".." component, and no
\* prefix of it is a symbolic link.
Canonical(v) ==
    /\ \A i \in 1..Len(v) : v[i] \notin {".", ".."}
    /\ \A n \in 1..Len(v) : SubSeq(v, 1, n) \notin DOMAIN Symlinks

\* The absolute path a path string p names for a process whose relative
\* paths start at r: the home for a leading "~", p itself when absolute.
Anchored(p, r) ==
    IF ~p.abs /\ p.parts # << >> /\ p.parts[1] = "~" THEN HomeDir \o Tail(p.parts)
    ELSE IF p.abs THEN p.parts
    ELSE r \o p.parts

\* v is r or lies below r, at a boundary of components.
AtOrBelow(v, r) == Len(r) <= Len(v) /\ \A i \in 1..Len(r) : v[i] = r[i]

\* C17: validate_path(p, r) raises or returns the canonical absolute form of
\* p (home expanded, relative to r, ".", ".." and links resolved), and the
\* returned path is the canonical r or lies below it at a component
\* boundary.
C17_GuardKeepsPathsInRoot ==
    (path_call.tool = VALIDATE_PATH /\ path_result.done /\ ~path_result.raised)
        => /\ Canonical(path_result.value)
           /\ path_result.value = resolve(Anchored(path_call.path, path_call.root))
           /\ AtOrBelow(path_result.value, resolve(path_call.root))

\* C17 witness: a relative path that leaves the workspace through ".." and
\* comes back into it through a link was accepted in its resolved form.
C17_Witness ==
    /\ path_call = [tool |-> VALIDATE_PATH, root |-> << "ws", "in" >>, arg |-> Plain,
                    path |-> InputPath(FALSE, << "..", "in", "out" >>)]
    /\ path_result.done
    /\ ~path_result.raised
    /\ path_result.value = << "ws", "src", "out" >>

\* The path of the call escapes the workspace root of the call.
Escapes(call) ==
    ~is_relative_to(resolve(Anchored(call.path, call.root)), resolve(call.root))

\* C18: a built-in file tool called with a path that escapes the workspace
\* root returns (it does not raise) a result with success = FALSE and has
\* read or written no file.
C18_EscapeIsRefused ==
    (path_call.tool \in PathTools /\ path_result.done /\ Escapes(path_call))
        => /\ ~path_result.raised
           /\ ~path_result.success
           /\ path_result.touched = {}

-----------------------------------------------------------------------------
(* Properties of the context (SpecCtx)                                     *)

\* C5: the history of a context is never empty and starts with a system
\* message, and no mutator changes that first message.
C5_SystemFirst ==
    /\ [](\A r \in created : history[r] # << >> /\ history[r][1].role = "system")
    /\ [][\A r \in created : history'[r] # << >> /\ history'[r][1] = history[r][1]]_vars

\* C5 witness: a saved session was loaded under the resident prompt and a
\* message was appended after it.
C5_Witness ==
    /\ Len(history[CliTask]) = 4
    /\ history[CliTask][1] = SystemMsg(SYSTEM_PROMPT)
    /\ history[CliTask][2] = UserMsg("saved question")
    /\ history[CliTask][4].role = "tool"

-----------------------------------------------------------------------------
(* Sessions: a new session is empty until a turn runs on it                 *)

\* C21: new_session returns the id of a session, and a load of a session
\* that new_session returned, with no chat on it since, answers with an
\* empty history; such a session holds its system message alone, whatever
\* the user did in other sessions.
C21_NewSessionLoadsEmpty ==
    /\ [][JustServed("new")
            => /\ response'.status = 200
               /\ runtime_key(response'.user, response'.id) \in unchatted']_vars
    /\ [](\A k \in unchatted : Len(history[k]) = 1 /\ files[k] # Missing)
    /\ [][(JustServed("load")
            /\ runtime_key(response'.user, response'.id) \in unchatted)
          => (response'.shows = {get_session_path(response'.user, response'.id)}
              /\ response'.history = << >>)]_vars

-----------------------------------------------------------------------------
(* ContextManager: what the session file holds and gives back              *)

\* The autosave file of the context as open finds it in the working
\* directory, and whether it holds what save_history writes for the history
\* of the context.
SessionPath == open_at(cwd, autosave[CliTask])
FileIsCurrent == files[SessionPath] = json_dump(history[CliTask])

\* C22: once save_history has written the history, load_history of that file
\* on the same context leaves the context's own system message followed by
\* the saved tail, and a runtime created anew for the session exists and
\* holds the prompt of its own working directory followed by the saved
\* tail; a saved history without tail comes back with length 1.
C22_SaveLoadRoundTrip ==
    [][FileIsCurrent =>
         LET saved == history[CliTask] IN
         /\ CtxLoad(files[SessionPath])
               => history'[CliTask] = << saved[1] >> \o Tail(saved)
         /\ \A manager \in ServerManagers :
               CtxRecreate(manager)
                  => /\ raised' = None
                     /\ history'[CliTask] = ContextAt(cwd) \o Tail(saved)
                     /\ Len(saved) = 1 => Len(history'[CliTask]) = 1]_vars

\* A mutator ran and returned.
MutatorReturned ==
    /\ raised' = None
    /\ \/ \E c \in UserInputs, how \in SaveOutcomes : CtxAddUser(c, how)
       \/ \E how \in SaveOutcomes : CtxAddAssistant("text", how)
       \/ \E how \in SaveOutcomes : CtxAddTool(1, "file content", how)
       \/ CtxReset

\* C27: when add_user_msg, add_assistant_msg, add_tool_output or reset
\* returns on a context with an autosave path, the file holds exactly the
\* history of the context.
C27_AutosaveIsCurrent ==
    [][MutatorReturned => files'[SessionPath] = json_dump(history'[CliTask])]_vars

\* The mutators that append a message.
Appenders == {"add_user_msg", "add_assistant_msg", "add_tool_output"}

\* C28: a mutator whose save fails returns normally: no exception leaves
\* add_user_msg, add_assistant_msg or add_tool_output.
C28_FailedSaveIsSilent == raised \notin Appenders

\* The messages of a file without its leading system message.
WithoutSystem(loaded) ==
    IF loaded # << >> /\ loaded[1].role = "system" THEN Tail(loaded) ELSE loaded

\* C29: load_history of a file that holds a JSON array of messages, the
\* empty array included, leaves the resident system message followed by the
\* messages of the file without its leading system message.
C29_LoadReplacesTail ==
    [][\A file \in { f \in LoadableFiles \cup {files[SessionPath]} : loadable(f) } :
          CtxLoad(file)
             => history'[CliTask] = << history[CliTask][1] >> \o WithoutSystem(json_load(file))]_vars

\* C30: reset leaves one message, the system prompt built for the working
\* directory the process is in when reset is called.
C30_ResetRebuildsPrompt ==
    [][CtxReset => history'[CliTask] = << SystemMsg(build_system_prompt(cwd)) >>]_vars

-----------------------------------------------------------------------------
(* McpClient: requests and their responses                                  *)

\* C24: the ids of the requests of a client grow strictly; a table entry
\* belongs to a request that has not been completed; the future of a request
\* is completed at most once, by a response that carries the id of the
\* request, and its entry is then gone from the table; a request returns the
\* result, or raises the error, of that response.
C24_ResponsesReachTheirRequest ==
    /\ \A m, n \in DOMAIN mcp.calls : m < n => mcp.calls[m].id < mcp.calls[n].id
    /\ \A i \in DOMAIN mcp.pending_requests :
          mcp.pending_requests[i] # 0
             => /\ mcp.pending_requests[i] \in DOMAIN mcp.calls
                /\ mcp.calls[mcp.pending_requests[i]].id = i
                /\ mcp.calls[mcp.pending_requests[i]].completions = 0
    /\ \A n \in DOMAIN mcp.calls :
          LET call == mcp.calls[n] IN
          /\ call.completions <= 1
          /\ call.completions = 1
                => (call.reply.id = call.id /\ mcp.pending_requests[call.id] = 0)
          /\ call.state \in {"returned", "raised"}
                => /\ call.completions = 1
                   /\ call.reply.id = call.id
                   /\ (call.state = "raised") = call.reply.error

\* C24 witness: of three requests the second has returned the result "r2"
\* ahead of the first, which still waits in the table, and the third has
\* raised the error of its response.
C24_Witness ==
    /\ Len(mcp.calls) = 3
    /\ mcp.calls[1].state = "waiting" /\ mcp.pending_requests[1] = 1
    /\ mcp.calls[2].state = "returned" /\ mcp.calls[2].reply = McpMessage(2, FALSE, "r2")
    /\ mcp.calls[3].state = "raised" /\ mcp.calls[3].reply.error

-----------------------------------------------------------------------------
(* parse_stream: the message does not depend on the chunking               *)

RECURSIVE JoinAll(_)
JoinAll(texts) == IF texts = << >> THEN << >> ELSE Head(texts) \o JoinAll(Tail(texts))

\* All tool-call fragments of a stream with index idx, in their order.
FragmentsAt(cs, idx) ==
    SelectSeq(JoinAll([i \in 1..Len(cs) |-> IF cs[i].choices THEN cs[i].tool_calls ELSE << >>]),
              LAMBDA tc : tc.index = idx)

\* What the fragments of a stream concatenate to: the reasoning, the content
\* and, for each index that occurs, the id, the name and the arguments.
Texts(cs) ==
    [reasoning |-> JoinAll([i \in 1..Len(cs) |-> cs[i].reasoning_content]),
     content |-> JoinAll([i \in 1..Len(cs) |-> cs[i].content]),
     groups |-> [idx \in Indexes |->
                   LET fs == FragmentsAt(cs, idx) IN
                   [occurs |-> fs # << >>,
                    id |-> JoinAll([i \in 1..Len(fs) |-> fs[i].id]),
                    name |-> JoinAll([i \in 1..Len(fs) |-> fs[i].name]),
                    arguments |-> JoinAll([i \in 1..Len(fs) |-> fs[i].arguments])]]]

\* The message that belongs to the concatenated texts.
RECURSIVE CallsOf(_, _)
CallsOf(groups, idx) ==
    IF idx \notin Indexes THEN << >>
    ELSE (IF groups[idx].occurs
          THEN << [id |-> groups[idx].id, type |-> "function", name |-> groups[idx].name,
                   arguments |-> groups[idx].arguments] >>
          ELSE << >>)
         \o CallsOf(groups, idx + 1)

MessageOf(texts) ==
    [role |-> "assistant",
     reasoning_content |-> OrNone(texts.reasoning),
     content |-> OrNone(texts.content),
     tool_calls |-> OrNone(CallsOf(texts.groups, 0))]

\* The streams of at most two chunks.
Rechunkings == ChunkSeqs(2)

\* C25: the full_message of a stream is the message of the texts its
\* fragments concatenate to, so two streams whose reasoning, content and
\* per-index id, name and argument fragments concatenate to the same texts
\* yield equal messages, however the texts are cut into chunks (stated
\* where parse_stream has returned and no tool call has run yet; the message
\* is not touched after that).
C25_ChunkingDoesNotMatter ==
    (full_message # NotParsed /\ dispatched[CliTask] = 0)
       => /\ full_message = MessageOf(Texts(chunks))
          /\ \A other \in Rechunkings :
                Texts(other) = Texts(chunks) => full_message_of(other) = full_message

\* C25 witness: a stream of two chunks that cuts the content "ab" in two was
\* parsed; the one-chunk stream with "ab" has the same texts.
C25_Witness ==
    /\ full_message # NotParsed
    /\ chunks = << Delta(TRUE, << >>, << "a" >>, << >>), Delta(TRUE, << >>, << "b" >>, << >>) >>
    /\ Texts(<< Delta(TRUE, << >>, << "a", "b" >>, << >>) >>) = Texts(chunks)
    /\ full_message.content = OrNone(<< "a", "b" >>)

-----------------------------------------------------------------------------
(* ToolExecutor: registering a tool again                                   *)

\* The schemas of the catalogue that bear the name.
EntriesNamed(defs, name) == { i \in 1..Len(defs) : defs[i].name = name }

\* C26: registering a tool that is registered already changes nothing a
\* caller can see: get_definitions returns what it returned before, with one
\* entry for the name of the tool, and every name is dispatched as before.
C26_RegisterTwiceIsNoOp ==
    [][\A func \in Funcs :
          (/\ Register(func)
           /\ dispatch(executor, func.name) = func.impl
           /\ \E i \in EntriesNamed(get_definitions(executor), func.name) :
                 get_definitions(executor)[i] = generate_openai_schema(func))
          => /\ get_definitions(executor') = get_definitions(executor)
             /\ Cardinality(EntriesNamed(get_definitions(executor'), func.name)) = 1
             /\ \A name \in ToolNames : dispatch(executor', name) = dispatch(executor, name)]_vars

-----------------------------------------------------------------------------
(* step: the order of the events and of the tool calls of one reply         *)

DeltaTypes == {"thinking_delta", "content_delta"}
CallTypes == {"tool_call", "tool_output"}

\* C31: among the events of one loop iteration every thinking_delta comes
\* before every content_delta, every delta before the first tool_call, and
\* the event that follows a tool_call is the tool_output of the same call
\* (which has been yielded once the step has left the call).
C31_EventsInOrder ==
    LET E == events[CliTask] IN
    /\ \A i, j \in 1..Len(E) :
          (i < j /\ E[i].type = "content_delta") => E[j].type # "thinking_delta"
    /\ \A i, j \in 1..Len(E) :
          (i < j /\ E[i].type \in CallTypes) => E[j].type \notin DeltaTypes
    /\ \A i \in 1..Len(E) :
          E[i].type = "tool_call"
             => IF i < Len(E)
                THEN E[i + 1].type = "tool_output" /\ E[i + 1].id = E[i].id
                ELSE pc[CliTask] = "tool_call"

\* The indexes that occur in the fragments of a stream, and the k-th of
\* them in ascending order.
Occurring(cs) == { idx \in Indexes : FragmentsAt(cs, idx) # << >> }
KthIndex(cs, k) ==
    CHOOSE idx \in Occurring(cs) : Cardinality({ j \in Occurring(cs) : j < idx }) = k - 1

\* The calls announced so far, in the order of their tool_call events.
Announced == SelectSeq(events[CliTask], LAMBDA e : e.type = "tool_call")

\* The calls answered so far, in the order of their tool_output events.
Answers == SelectSeq(events[CliTask], LAMBDA e : e.type = "tool_output")

\* C32: the tool calls of the assembled message stand in ascending order of
\* their fragment index, one call per index that occurs, and step runs them
\* one after another in that order: the calls announced so far are the
\* first ones of the list, each answered before the next is announced, and
\* when the step has left the last call all of them have been run.
C32_CallsByAscendingIndex ==
    full_message # NotParsed
       => LET calls == full_message.tool_calls.value
              texts == Texts(chunks)
          IN
          /\ Len(calls) = Cardinality(Occurring(chunks))
          /\ \A k \in 1..Len(calls) :
                LET group == texts.groups[KthIndex(chunks, k)] IN
                /\ calls[k].id = group.id
                /\ calls[k].name = group.name
                /\ calls[k].arguments = group.arguments
          /\ Len(Answers) = dispatched[CliTask]
          /\ Len(Announced) = dispatched[CliTask] + (IF pc[CliTask] = "tool_call" THEN 1 ELSE 0)
          /\ Len(Announced) <= Len(calls)
          /\ \A k \in 1..Len(Announced) : Announced[k].content = calls[k]
          /\ \A k \in 1..Len(Answers) : Answers[k].id = calls[k].id
          /\ pending[CliTask] = << >>
                \/ pending[CliTask] = SubSeq(calls, Len(Announced), Len(calls))
          /\ pending[CliTask] = << >> => dispatched[CliTask] = Len(calls)
          /\ \A i \in 1..(Len(events[CliTask]) - 1) :
                events[CliTask][i].type = "tool_call"
                   => events[CliTask][i + 1].type = "tool_output"

\* C32 witness: the fragments of index 1 arrived before those of index 0,
\* and both calls have been run, the call of index 0 first.
C32_Witness ==
    /\ chunks = << Delta(TRUE, << "b" >>, << "b" >>,
                         << ToolDelta(1, << "b" >>, << "a" >>, << >>),
                            ToolDelta(0, << >>, << "a" >>, << "a" >>) >>) >>
    /\ pc[CliTask] = "call"
    /\ dispatched[CliTask] = 2
    /\ Len(Announced) = 2
    /\ Announced[1].content.arguments = << "a" >>
    /\ Announced[2].content.id = << "b" >>

\* C33: whenever step is about to call the model, the messages it sends are
\* the history followed by one system message built from todo_state as it
\* is at that call (a list a write_todo or update_todo of the iteration
\* before has left is the list of the message) when todo_state is not
\* empty, and by nothing otherwise; no message of the history is that
\* reminder, and the session file holds the history and nothing else.
Updated(lists) ==
    lists \cup { update_todo(l, u).todos : l \in lists, u \in TodoUpdates }
TodoStates == Updated(Updated({ todos_of(a) : a \in TodoLists }))
TodoInjections == { system_injection(todos) : todos \in TodoStates }
C33_SentAtCall ==
    /\ todo_state \in TodoStates
    /\ pc[CliTask] = "call"
         => messages_to_send =
              history[CliTask]
              \o (IF todo_state = NoTodos THEN << >> ELSE << system_injection(todo_state) >>)
C33_NotStored ==
    /\ \A i \in DOMAIN history[CliTask] : history[CliTask][i] \notin TodoInjections
    /\ \A k \in SessionKeys :
          files[k] = Missing \/ files[k] = json_dump(history[CliTask])
C33_TodoReminderIsEphemeral == C33_SentAtCall /\ C33_NotStored

\* C33 witness: in a step of a runtime that autosaves, update_todo has set
\* the status of the subtask "b" of the list an earlier write_todo stored,
\* and the second model call of the step sent the reminder of the list with
\* that status.
C33_Witness ==
    LET updated == << TodoItem("a", "pending", << TodoItem("b", "completed", << >>) >>) >>
    IN  /\ model_calls[CliTask] = 2
        /\ todo_state = updated
        /\ autosave[CliTask] # NoFile
        /\ messages_to_send # << >>
        /\ messages_to_send[Len(messages_to_send)] = system_injection(updated)
        /\ Last(history[CliTask]).role = "tool"
        /\ Last(history[CliTask]).content = "Updated Plan Status:"

\* C34: for a reply that carries reasoning and neither content nor tool
\* calls, step appends exactly one assistant message whose content is
\* "(Model stopped after thinking)" and whose reasoning is the reply's,
\* yields finished and ends the turn.
ThoughtsAlone(full) ==
    /\ full # NotParsed
    /\ full.content.none
    /\ full.tool_calls.none
    /\ ~full.reasoning_content.none
C34_ThoughtsAloneEndTheTurn ==
    ThoughtsAlone(full_message)
    => LET h == history[CliTask]
           evs == events[CliTask]
       IN  /\ Len(h) = Len(ContextInit) + 1
           /\ h[Len(h)].role = "assistant"
           /\ h[Len(h)].content = OrNone(SyntheticContent)
           /\ h[Len(h)].reasoning_content = full_message.reasoning_content
           /\ h[Len(h)].tool_calls = OrNone(<< >>)
           /\ evs # << >>
           /\ evs[Len(evs)].type = "finished"
           /\ \A i \in 1..(Len(evs) - 1) : evs[i].type # "finished"
           /\ pc[CliTask] \in {"last", "done"}
           /\ ENABLED ChunkStepEnds \/ pc[CliTask] = "done"

\* A stream of two reasoning fragments and nothing else has been handled.
C34_Witness ==
    /\ ThoughtsAlone(full_message)
    /\ full_message.reasoning_content.value = << "a", "a", "b" >>
    /\ pc[CliTask] = "done"

\* C35: the completion tool ends the turn only when it succeeds: no
\* finished event carries the error output of a failed call.
C35_FailedCompletionContinues ==
    \A i \in DOMAIN events[CliTask] :
        events[CliTask][i].type = "finished"
        => events[CliTask][i].content \notin ErrorOutputs

-----------------------------------------------------------------------------
(* McpClient: messages with a method, and the end of the receive loop      *)

\* C36: an incoming message that has both a method and an id is dropped: no
\* future is completed by such a message, whatever its id.
C36_ServerCallsAreDropped ==
    \A n \in DOMAIN mcp.calls :
        mcp.calls[n].completions > 0 => ~mcp.calls[n].reply.method

\* C38: once the receive loop has ended or close() has run, no request is
\* left waiting for a future that nothing has completed and the table of
\* pending requests is empty.
C38_NoRequestIsLeftWaiting ==
    mcp.receive_task \in {"done", "cancelled"}
    => /\ \A n \in DOMAIN mcp.calls :
             ~(mcp.calls[n].state = "waiting" /\ mcp.calls[n].completions = 0)
       /\ \A i \in DOMAIN mcp.pending_requests : mcp.pending_requests[i] = 0

\* C37: connect on an SSE transport completes its handshake with a server
\* that announces its endpoint: connect has not failed for want of the
\* endpoint when the endpoint event of the server has been received.
C37_ConnectAwaitsEndpoint ==
    ~(sse.connect = "raised" /\ sse.endpoint # NoEndpoint)

-----------------------------------------------------------------------------
(* _robust_json_parse                                                      *)

\* The index of the first text of a sequence that json.loads accepts, or 0.
FirstParsing(texts) ==
    IF \E i \in DOMAIN texts : ~json_loads(texts[i]).raised
    THEN CHOOSE i \in DOMAIN texts :
            /\ ~json_loads(texts[i]).raised
            /\ \A j \in 1..(i - 1) : json_loads(texts[j]).raised
    ELSE 0

\* What the repair routine owes for the text s it works on: the parse of s,
\* else the parse of the first of s+'"', s+'"}', s+'}', s+'"]', s+']' that
\* parses, else the parse error.
Repaired(text) ==
    LET candidates == << text \o << QUOTE >>, text \o << QUOTE, "}" >>, text \o << "}" >>,
                         text \o << QUOTE, "]" >>, text \o << "]" >> >>
        first == FirstParsing(candidates)
    IN  IF ~json_loads(text).raised THEN json_loads(text)
        ELSE IF first # 0 THEN json_loads(candidates[first])
        ELSE JSONDecodeError

\* The text the repair routine is to work on: the argument string without
\* the whitespace around it and, when its first line starts with a fence
\* and its last line is another line that starts with a fence, without
\* these two lines and the whitespace around what is left.
Unfenced(text) ==
    LET s1 == strip(text)
        lines == splitlines(s1, << >>)
        n == Len(lines)
        fenced == /\ n > 1
                  /\ lines[1] # << >> /\ lines[1][1] = FENCE
                  /\ lines[n] # << >> /\ lines[n][1] = FENCE
    IN  IF fenced THEN strip(join(SubSeq(lines, 2, n - 1))) ELSE s1

\* C39: _robust_json_parse returns the empty object for an empty or blank
\* argument string; else, for the string s without its surrounding
\* whitespace and its pair of fence lines, the parse of s when s parses, the
\* parse of the first of s+'"', s+'"}', s+'}', s+'"]', s+']' that parses
\* when s does not, and the parse error when none does.
C39_RepairsTheArgumentString ==
    json_result.done
    => json_result = (IF \A i \in DOMAIN json_text : json_text[i] \in Whitespace
                      THEN Returned(<< "{", "}" >>) ELSE Repaired(Unfenced(json_text)))

-----------------------------------------------------------------------------
(* ContextManager.__init__ with a skills catalogue                         *)

\* C40: building the context of a runtime with a skills manager present
\* succeeds, and the history of the new context is one system message.
C40_ContextWithSkills ==
    skills_manager.present
    => /\ raised # "AttributeError"
       /\ (created # {} /\ turns = 0 /\ raised = None)
             => /\ Len(history[CliTask]) >= 1
                /\ history[CliTask][1].role = "system"

====
